---------------------------- MODULE Spec2Model ----------------------------
(***************************************************************************)
(* Content ingestion and integrity lifecycle of the file repository:       *)
(* the directory scanner and the uploader (src/app/routes/admin.py,        *)
(* src/app/routes/uploader.py), the hash sweeps and their scheduling       *)
(* (src/app/main.py), on-demand hashing and report submission              *)
(* (src/app/routes/api.py) and the moderators' pages                       *)
(* (src/app/routes/mod.py) over the entry store (src/app/database.py).     *)
(*                                                                         *)
(* Every coroutine is cut at its awaits: a pc names the await a coroutine  *)
(* is suspended in, and an action is the completion of that await (the     *)
(* store call takes effect) followed by the synchronous code up to the     *)
(* next await.                                                             *)
(***************************************************************************)
EXTENDS Integers, Sequences, FiniteSets, TLC

VARIABLES
    entries,      \* the entries collection: _key -> document
    nextKey,      \* the next _key the store hands out
    files,        \* the filesystem: path -> content of the regular file there
    scan,         \* scan requests in flight (admin_scan_directory / admin_rescan_all)
    lastScan,     \* the (added, skipped) answer of the last finished scan
    upload,       \* the upload request in flight (uploader_upload_submit)
    sweep,        \* the two background coroutines of main.py
    hashReq,      \* the on-demand hash request in flight (compute_file_hashes)
    now,          \* seconds since startup()
    app,          \* lifecycle of the process: running, stopping, stopped
    reports,      \* the reports collection: _key -> document
    nextReport,   \* the next report _key
    report,       \* submit_report requests in flight
    budget,       \* requests and disk changes the environment may still make
    activity,     \* the activity_logs collection, in insertion order
    modResp,      \* the answer to the moderator's latest request
    dirs,         \* the directories that exist on disk
    directories,  \* the directories collection, in insertion order
    addDir,       \* add-directory requests in flight (admin_add_directory)
    uploads       \* the upload statistics, in insertion order

vars == <<entries, nextKey, files, scan, lastScan, upload, sweep, hashReq,
          now, app, reports, nextReport, report, budget, activity, modResp,
          dirs, directories, addDir, uploads>>

---------------------------------------------------------------------------
(* Bounds of the model *)

MaxKey == 4          \* entries the store ever holds
MaxContent == 2      \* distinct file contents
MaxTime == 1215      \* the clock stops here
HashSlow == 600      \* seconds a large image may take to hash
MaxReports == 3      \* reports the store ever holds
MaxScans == 2        \* scan requests in flight at once
HashQuick == 1       \* seconds a small file takes to hash
MaxSubmits == 2      \* submit_report requests in flight at once
MaxRequests == 2     \* requests and disk changes the environment makes
MaxVanish == 1       \* files that disappear while the hash worker runs
MaxAdds == 2         \* add-directory requests in flight at once

(* Program constants *)

InitialDelay == 5    \* asyncio.sleep(5) of run_initial_hash_computation
SweepInterval == 600 \* asyncio.sleep(600) of compute_hashes_for_unhashed_entries
ItemDelay == 1       \* asyncio.sleep(1) between two entries of a sweep
max_depth == 3       \* scan_directory_for_files(..., max_depth = 3)
Md5Len == 32         \* hashlib.md5().hexdigest()
Sha256Len == 64      \* hashlib.sha256().hexdigest()

---------------------------------------------------------------------------
(* Values of a document attribute that holds a digest.  None and a missing *)
(* attribute are both null to AQL and to dict.get().                       *)

None == [kind |-> "null", len |-> 0, alg |-> "", of |-> 0]

\* the string 'processing': ten characters, not hexadecimal
processing == [kind |-> "text", len |-> 10, alg |-> "", of |-> 0]

\* hashlib.<alg>(content).digest(): the raw bytes, half as long
digest(algorithm, content) ==
    [kind |-> "bytes",
     len  |-> IF algorithm = "md5" THEN Md5Len \div 2 ELSE Sha256Len \div 2,
     alg  |-> algorithm,
     of   |-> content]

\* hashlib.<alg>(content).hexdigest()
hexdigest(algorithm, content) ==
    [kind |-> "hex",
     len  |-> IF algorithm = "md5" THEN Md5Len ELSE Sha256Len,
     alg  |-> algorithm,
     of   |-> content]

\* Python truthiness of an Optional[str]
Truthy(v) == v.kind # "null" /\ v.len > 0

---------------------------------------------------------------------------
(* Paths.  A file path is the names of its directories, the stem of its    *)
(* name, the number the uploader appended to the stem (0: none) and its    *)
(* extension; a directory path is a sequence of names.                     *)

Path(ds, stem, n, ext) == [dirs |-> ds, stem |-> stem, n |-> n, ext |-> ext]

Games == <<"games">>
GamesSub == <<"games", "sub">>
GamesD1 == <<"games", "d1">>

\* the files that may exist, in the order os.scandir lists them
Universe ==
    << Path(Games, "a", 0, "nsp"),
       Path(Games, "a", 1, "nsp"),
       Path(Games, "b", 0, "txt"),
       Path(GamesSub, "c", 0, "XCI"),
       Path(GamesD1 \o <<"d2", "d3">>, "d", 0, "nsz"),
       Path(GamesD1 \o <<"d2", "d3", "d4">>, "e", 0, "nsp") >>

\* the files three and four directories below games
DeepPaths == { Universe[5], Universe[6] }

Paths == { Universe[i] : i \in 1..Len(Universe) }

\* the directories an administrator registers
Dirs == { Games, GamesSub, GamesD1 }

\* a file's content; 0 where no regular file exists
Contents == 1..MaxContent

IsPrefix(s, t) == Len(s) <= Len(t) /\ SubSeq(t, 1, Len(s)) = s

\* os.path.exists(p) and os.path.isfile(p)
isfile(fs, p) == p \in Paths /\ fs[p] \in Contents

\* str.lower() of an extension
lower(ext) ==
    CASE ext = "NSP" -> "nsp"
      [] ext = "NSZ" -> "nsz"
      [] ext = "XCI" -> "xci"
      [] OTHER -> ext

\* os.path.splitext(os.path.basename(p))[0]: the name without the extension
file_name(p) == [stem |-> p.stem, n |-> p.n]

---------------------------------------------------------------------------
(* The entries collection (src/app/database.py) *)

Keys == 1..MaxKey

\* entry_exists answering False whatever the store holds, as its except
\* branch does
entry_exists_failing(ents, source) == FALSE

\* AQL: FOR doc IN entries FILTER doc.source == @source LIMIT 1 RETURN doc
entry_exists(ents, source) ==
    \E k \in DOMAIN ents : ents[k].source = source

\* entries_collection.insert(entry_data): the store assigns the _key
add_entry(ents, key, doc) ==
    [k \in DOMAIN ents \cup {key} |-> IF k = key THEN doc ELSE ents[k]]

\* entries_collection.delete(entry_id): the document leaves the collection
delete_entry(ents, key) == [k \in DOMAIN ents \ {key} |-> ents[k]]

\* FOR doc IN entries REMOVE doc IN entries
clear_all_entries(ents) == <<>>

\* a store call that creates the document it does not find (an upsert)
update_entry_hashes_upserting(ents, key, md5_hash, sha256_hash) ==
    IF Truthy(md5_hash) \/ Truthy(sha256_hash)
    THEN [k \in DOMAIN ents \cup {key} |->
            IF k \in DOMAIN ents
            THEN [ents[k] EXCEPT
                    !.md5_hash = IF k = key /\ Truthy(md5_hash) THEN md5_hash ELSE @,
                    !.sha256_hash = IF k = key /\ Truthy(sha256_hash)
                                    THEN sha256_hash ELSE @]
            ELSE [name |-> [stem |-> "", n |-> 0], source |-> Universe[1],
                  type |-> "filepath", file_type |-> "",
                  md5_hash |-> md5_hash, sha256_hash |-> sha256_hash,
                  corrupt |-> "null"]]
    ELSE ents

\* a store call that replaces the document by the attributes it is given
\* (collection.replace): the flag is lost
update_entry_hashes_replacing(ents, key, md5_hash, sha256_hash) ==
    IF key \in DOMAIN ents /\ (Truthy(md5_hash) \/ Truthy(sha256_hash))
    THEN [ents EXCEPT
            ![key].md5_hash = IF Truthy(md5_hash) THEN md5_hash ELSE @,
            ![key].sha256_hash = IF Truthy(sha256_hash) THEN sha256_hash ELSE @,
            ![key].corrupt = "null"]
    ELSE ents

\* update_entry_hashes: an attribute is written only when its argument is
\* truthy, and nothing is sent to the store when neither is; an update of a
\* document that is gone raises inside the try and is swallowed
update_entry_hashes(ents, key, md5_hash, sha256_hash) ==
    IF key \in DOMAIN ents /\ (Truthy(md5_hash) \/ Truthy(sha256_hash))
    THEN [ents EXCEPT
            ![key].md5_hash = IF Truthy(md5_hash) THEN md5_hash ELSE @,
            ![key].sha256_hash = IF Truthy(sha256_hash) THEN sha256_hash ELSE @]
    ELSE ents

\* an update that clears the flag of every entry when it clears one
mark_entry_corrupt_everywhere(ents, key, corrupt) ==
    IF key \in DOMAIN ents
    THEN [k \in DOMAIN ents |->
            [ents[k] EXCEPT !.corrupt =
                IF corrupt THEN (IF k = key THEN "true" ELSE @) ELSE "false"]]
    ELSE ents

\* entries_collection.update(entry_id, {"corrupt": corrupt})
mark_entry_corrupt(ents, key, corrupt) ==
    IF key \in DOMAIN ents
    THEN [ents EXCEPT ![key].corrupt = IF corrupt THEN "true" ELSE "false"]
    ELSE ents

\* Database.record_upload: upload_statistics_collection.insert(upload_data)
record_upload(stats, entry_id) == Append(stats, [entry_id |-> entry_id])

\* Database.add_activity_log: activity_logs_collection.insert(activity_data)
add_activity_log(log, activity_data) == Append(log, activity_data)

---------------------------------------------------------------------------
(* Directory scanner (src/app/routes/admin.py) *)

ScanReqs == 1..MaxScans

\* a filter that compares the extension as it is written
should_process_file_exact(p) == p.ext \in {"nsz", "nsp", "xci"}

\* should_process_file: file_path.lower().endswith(('.nsz', '.nsp', '.xci'))
should_process_file(p) == lower(p.ext) \in {"nsz", "nsp", "xci"}

\* the level of p's directory below root (root itself: 0)
Depth(root, p) == Len(p.dirs) - Len(root)

\* a walk that stops one level early
walk_directory_shallow(fs, root) ==
    SelectSeq(Universe,
              LAMBDA p : /\ isfile(fs, p)
                         /\ IsPrefix(root, p.dirs)
                         /\ Depth(root, p) < max_depth
                         /\ should_process_file(p))

\* walk_directory(root): the candidates it yields, files of the directories
\* at levels 0..max_depth that pass should_process_file
walk_directory(fs, root) ==
    SelectSeq(Universe,
              LAMBDA p : /\ isfile(fs, p)
                         /\ IsPrefix(root, p.dirs)
                         /\ Depth(root, p) <= max_depth
                         /\ should_process_file(p))

\* get_file_type: the FileType value of the lower-cased extension, 'nsp'
\* for any other
get_file_type(p) ==
    CASE lower(p.ext) = "nsz" -> "nsz"
      [] lower(p.ext) = "nsp" -> "nsp"
      [] lower(p.ext) = "xci" -> "xci"
      [] OTHER -> "nsp"

\* a scanner that hashes what it registers
scan_entry_data_hashed(p) ==
    [name |-> file_name(p), source |-> p, type |-> "filepath",
     file_type |-> get_file_type(p),
     md5_hash |-> None, sha256_hash |-> hexdigest("sha256", 1), corrupt |-> "null"]

\* entry_data of scan_directory_for_files: no digest and no corrupt attribute
scan_entry_data(p) ==
    [name |-> file_name(p), source |-> p, type |-> "filepath",
     file_type |-> get_file_type(p),
     md5_hash |-> None, sha256_hash |-> None, corrupt |-> "null"]

\* "https://example.com/zelda_botw.nsz", the source of a url entry
UrlSource == Path(<<"https:", "", "example.com">>, "zelda_botw", 0, "nsz")

\* a url entry of SAMPLE_GAMES: no digest and no corrupt attribute
url_entry_data ==
    [name |-> file_name(UrlSource), source |-> UrlSource, type |-> "url",
     file_type |-> "nsz",
     md5_hash |-> None, sha256_hash |-> None, corrupt |-> "null"]

NoScan == [roots |-> <<>>, added |-> 0, skipped |-> 0, ents |-> <<>>]

\* a request: added_count and skipped_count are the counters of the
\* scan_directory_for_files call under way, results the tuples the calls
\* returned, added and skipped the handler's sums of them (total_added and
\* total_skipped in admin_rescan_all), status the response's
IdleScan ==
    [pc |-> "idle", handler |-> "", asked |-> <<>>, roots |-> <<>>,
     cand |-> <<>>, added_count |-> 0, skipped_count |-> 0, results |-> <<>>,
     added |-> 0, skipped |-> 0, status |-> 0, prev |-> NoScan]

\* os.path.exists(directory_path)
exists(ds, directory_path) == directory_path \in ds

\* "for directory in directories": a directory whose path exists is walked
\* up to the first entry_exists, and a walk that yields nothing returns
\* (0, 0) at once; one whose path does not exist is passed over; after the
\* last one the response is built
RECURSIVE scan_next_directory(_, _, _)
scan_next_directory(req, fs, ds) ==
    IF req.roots = <<>> THEN [req EXCEPT !.pc = "done", !.status = 200]
    ELSE LET directory_path == Head(req.roots)
             rest == [req EXCEPT !.roots = Tail(@)]
         IN  IF ~exists(ds, directory_path) THEN scan_next_directory(rest, fs, ds)
             ELSE IF walk_directory(fs, directory_path) = <<>>
             THEN scan_next_directory([rest EXCEPT !.results = Append(@, <<0, 0>>)], fs, ds)
             ELSE [rest EXCEPT !.pc = "exists", !.added_count = 0, !.skipped_count = 0,
                               !.cand = walk_directory(fs, directory_path)]

\* a handler that keeps the latest directory's counts instead of the sums
scan_advance_overwriting(req, fs, ds) ==
    IF req.cand # <<>> THEN [req EXCEPT !.pc = "exists"]
    ELSE scan_next_directory(
            [req EXCEPT !.results = Append(@, <<req.added_count, req.skipped_count>>),
                        !.added = req.added_count,
                        !.skipped = req.skipped_count,
                        !.added_count = 0, !.skipped_count = 0],
            fs, ds)

\* the for loop of scan_directory_for_files: on to the next candidate; when
\* the walk is exhausted the call returns (added_count, skipped_count), the
\* handler adds them to its sums and goes to its next directory
scan_advance(req, fs, ds) ==
    IF req.cand # <<>> THEN [req EXCEPT !.pc = "exists"]
    ELSE scan_next_directory(
            [req EXCEPT !.results = Append(@, <<req.added_count, req.skipped_count>>),
                        !.added = @ + req.added_count,
                        !.skipped = @ + req.skipped_count,
                        !.added_count = 0, !.skipped_count = 0],
            fs, ds)

\* a request names one registered directory (admin_scan_directory) or asks
\* for all of them, in the order get_all_directories returns them
\* (admin_rescan_all)
ScanDirectory(directory_path) ==
    [handler |-> "admin_scan_directory", roots |-> <<directory_path>>]
RescanAll(registered) ==
    [handler |-> "admin_rescan_all", roots |-> registered]

ScanTargets ==
    { ScanDirectory(Games), ScanDirectory(GamesSub), RescanAll(<<Games, GamesSub>>) }

\* admin_scan_directory / admin_rescan_all up to the first entry_exists;
\* admin_scan_directory answers 400 for a directory that is not on disk
ScanStart(r, target) ==
    /\ budget > 0
    /\ budget' = budget - 1
    /\ scan[r].pc = "idle"
    /\ scan' = [scan EXCEPT ![r] =
            LET req == [IdleScan EXCEPT !.handler = target.handler,
                                        !.asked = target.roots,
                                        !.roots = target.roots,
                                        !.prev = lastScan]
            IN  IF target.handler = "admin_scan_directory" /\
                   ~exists(dirs, target.roots[1])
                THEN [req EXCEPT !.pc = "done", !.roots = <<>>, !.status = 400]
                ELSE scan_next_directory(req, files, dirs)]
    /\ UNCHANGED <<entries, nextKey, files, lastScan, upload, sweep, hashReq,
                   now, app, reports, nextReport, report, activity, modResp, dirs,
                   directories, addDir, uploads>>

\* a scanner that writes a known source's entry anew
ScanExistsRefreshing(r) ==
    /\ scan[r].pc = "exists"
    /\ LET req == scan[r]
           p == Head(req.cand)
       IN  /\ entries' = [k \in DOMAIN entries |->
                            IF entries[k].source = p THEN scan_entry_data(p)
                                                     ELSE entries[k]]
           /\ scan' = [scan EXCEPT ![r] =
                  IF entry_exists(entries, p)
                  THEN scan_advance([req EXCEPT !.skipped_count = @ + 1, !.cand = Tail(@)],
                                    files, dirs)
                  ELSE IF ~isfile(files, p)
                  THEN scan_advance([req EXCEPT !.cand = Tail(@)], files, dirs)
                  ELSE [req EXCEPT !.pc = "insert"]]
    /\ UNCHANGED <<nextKey, files, lastScan, upload, sweep, hashReq,
                   now, app, reports, nextReport, report, budget, activity, modResp, dirs,
                   directories, addDir, uploads>>

\* await db.entry_exists(file_path) answers: a known source is skipped; for a
\* new one os.path.getsize raises when the file is gone (logged, next file),
\* otherwise db.add_entry is awaited
ScanExists(r) ==
    /\ scan[r].pc = "exists"
    /\ LET req == scan[r]
           p == Head(req.cand)
       IN  scan' = [scan EXCEPT ![r] =
              IF entry_exists(entries, p)
              THEN scan_advance([req EXCEPT !.skipped_count = @ + 1, !.cand = Tail(@)],
                                files, dirs)
              ELSE IF ~isfile(files, p)
              THEN scan_advance([req EXCEPT !.cand = Tail(@)], files, dirs)
              ELSE [req EXCEPT !.pc = "insert"]]
    /\ UNCHANGED <<entries, nextKey, files, lastScan, upload, sweep, hashReq,
                   now, app, reports, nextReport, report, budget, activity, modResp, dirs,
                   directories, addDir, uploads>>

\* os.path.getsize raises on a file that is there (PermissionError): the
\* except branch logs it and the for loop goes on
ScanStatFails(r) ==
    /\ scan[r].pc = "exists"
    /\ ~entry_exists(entries, Head(scan[r].cand))
    /\ scan' = [scan EXCEPT ![r] = scan_advance([@ EXCEPT !.cand = Tail(@)], files, dirs)]
    /\ UNCHANGED <<entries, nextKey, files, lastScan, upload, sweep, hashReq,
                   now, app, reports, nextReport, report, budget, activity, modResp, dirs,
                   directories, addDir, uploads>>

\* a rejected insert that ends the walk: the exception leaves the for loop
ScanInsertAborts(r) ==
    /\ scan[r].pc = "insert"
    /\ scan' = [scan EXCEPT ![r].pc = "done", ![r].cand = <<>>, ![r].roots = <<>>]
    /\ UNCHANGED <<entries, nextKey, files, lastScan, upload, sweep, hashReq,
                   now, app, reports, nextReport, report, budget, activity, modResp, dirs,
                   directories, addDir, uploads>>

\* the store rejects the insert: add_entry catches the exception and returns
\* None, the file is not counted and the for loop goes on
ScanInsertFails(r) ==
    /\ scan[r].pc = "insert"
    /\ scan' = [scan EXCEPT ![r] = scan_advance([@ EXCEPT !.cand = Tail(@)], files, dirs)]
    /\ UNCHANGED <<entries, nextKey, files, lastScan, upload, sweep, hashReq,
                   now, app, reports, nextReport, report, budget, activity, modResp, dirs,
                   directories, addDir, uploads>>

\* await db.add_entry(entry_data) answers with the new _key
ScanInsert(r) ==
    /\ scan[r].pc = "insert"
    /\ nextKey <= MaxKey
    /\ LET req == scan[r]
           p == Head(req.cand)
       IN  /\ entries' = add_entry(entries, nextKey, scan_entry_data(p))
           /\ nextKey' = nextKey + 1
           /\ scan' = [scan EXCEPT ![r] =
                  scan_advance([req EXCEPT !.added_count = @ + 1, !.cand = Tail(@)],
                               files, dirs)]
    /\ UNCHANGED <<files, lastScan, upload, sweep, hashReq,
                   now, app, reports, nextReport, report, budget, activity, modResp, dirs,
                   directories, addDir, uploads>>

\* the JSON response: "Added {added} files, skipped {skipped} duplicates"
ScanFinish(r) ==
    /\ scan[r].pc = "done"
    /\ lastScan' = [roots |-> scan[r].asked, added |-> scan[r].added,
                    skipped |-> scan[r].skipped, ents |-> entries]
    /\ scan' = [scan EXCEPT ![r] = IdleScan]
    /\ UNCHANGED <<entries, nextKey, files, upload, sweep, hashReq,
                   now, app, reports, nextReport, report, budget, activity, modResp, dirs,
                   directories, addDir, uploads>>

---------------------------------------------------------------------------
(* Uploader (src/app/routes/uploader.py, uploader_upload_submit) *)

\* the directory the upload goes to
upload_dir == Games

\* the names a client may send: "<stem>.<ext>"
UploadStems == {"a"}
UploadExts == {"nsp"}

\* while os.path.exists(file_path): "{safe_basename}_{counter}.{file_ext}"
RECURSIVE unique_path(_, _, _, _)
unique_path(fs, stem, ext, counter) ==
    LET p == Path(upload_dir, stem, counter, ext)
    IN  IF p \in Paths /\ isfile(fs, p)
        THEN unique_path(fs, stem, ext, counter + 1)
        ELSE p

\* Entry(name, source, type, ...).to_dict(): corrupt False, no digest
upload_entry_data(name, source) ==
    [name |-> name, source |-> source, type |-> "filepath",
     file_type |-> lower(source.ext),
     md5_hash |-> None, sha256_hash |-> None, corrupt |-> "false"]

\* the request in flight; status is the answer of the last one
IdleUpload ==
    [pc |-> "idle", name |-> [stem |-> "", n |-> 0], path |-> Universe[1],
     key |-> 0, sha256_hash |-> None, status |-> 0]

\* the extension is validated, a path no file has yet is chosen and the
\* upload is streamed to it; the duplicate-name query is awaited
UploadWrite(stem, ext, content) ==
    /\ budget > 0
    /\ budget' = budget - 1
    /\ upload.pc = "idle"
    /\ lower(ext) \in {"nsp", "nsz", "xci"}
    /\ LET p == unique_path(files, stem, lower(ext), 0)
       IN  /\ p \in Paths
           /\ files' = [files EXCEPT ![p] = content]
           /\ upload' = [IdleUpload EXCEPT !.pc = "dupname", !.path = p,
                                           !.name = [stem |-> stem, n |-> 0]]
    /\ UNCHANGED <<entries, nextKey, scan, lastScan, sweep, hashReq,
                   now, app, reports, nextReport, report, activity, modResp, dirs,
                   directories, addDir, uploads>>

\* a rejection that leaves the file it wrote on disk
UploadDupNameKeeping ==
    /\ upload.pc = "dupname"
    /\ upload' = IF \E k \in DOMAIN entries : entries[k].name = upload.name
                 THEN [IdleUpload EXCEPT !.status = 400]
                 ELSE [upload EXCEPT !.pc = "sha256"]
    /\ UNCHANGED <<entries, nextKey, files, scan, lastScan, sweep, hashReq,
                   now, app, reports, nextReport, report, budget, activity, modResp, dirs,
                   directories, addDir, uploads>>

\* AQL: FOR doc IN entries FILTER doc.name == @name: a duplicate name removes
\* the file and rejects the upload with 400; otherwise _compute_sha256_sync
\* runs
UploadDupName ==
    /\ upload.pc = "dupname"
    /\ IF \E k \in DOMAIN entries : entries[k].name = upload.name
       THEN /\ files' = [files EXCEPT ![upload.path] = 0]
            /\ upload' = [IdleUpload EXCEPT !.status = 400]
       ELSE /\ files' = files
            /\ upload' = [upload EXCEPT !.pc = "sha256"]
    /\ UNCHANGED <<entries, nextKey, scan, lastScan, sweep, hashReq,
                   now, app, reports, nextReport, report, budget, activity, modResp, dirs,
                   directories, addDir, uploads>>

\* await asyncio.to_thread(_compute_sha256_sync, file_path): the digest of
\* the file, or the open() raises and the handler answers 500
UploadSha256 ==
    /\ upload.pc = "sha256"
    /\ upload' = IF isfile(files, upload.path)
                 THEN [upload EXCEPT !.pc = "insert",
                          !.sha256_hash = hexdigest("sha256", files[upload.path])]
                 ELSE [IdleUpload EXCEPT !.status = 500]
    /\ UNCHANGED <<entries, nextKey, files, scan, lastScan, sweep, hashReq,
                   now, app, reports, nextReport, report, budget, activity, modResp, dirs,
                   directories, addDir, uploads>>

\* await db.add_entry(entry.to_dict())
UploadInsert ==
    /\ upload.pc = "insert"
    /\ nextKey <= MaxKey
    /\ entries' = add_entry(entries, nextKey, upload_entry_data(upload.name, upload.path))
    /\ nextKey' = nextKey + 1
    /\ upload' = [upload EXCEPT !.pc = "sethash", !.key = nextKey]
    /\ UNCHANGED <<files, scan, lastScan, sweep, hashReq,
                   now, app, reports, nextReport, report, budget, activity, modResp, dirs,
                   directories, addDir, uploads>>

\* await db.update_entry_hashes(entry_id, None, sha256_hash), then the
\* statistics, the activity log and the response
UploadSetHash ==
    /\ upload.pc = "sethash"
    /\ entries' = update_entry_hashes(entries, upload.key, None, upload.sha256_hash)
    /\ upload' = [IdleUpload EXCEPT !.status = 200]
    /\ uploads' = record_upload(uploads, upload.key)
    /\ activity' = add_activity_log(activity, [event_type |-> "upload", entry_id |-> upload.key])
    /\ UNCHANGED <<nextKey, files, scan, lastScan, sweep, hashReq,
                   now, app, reports, nextReport, report, budget, modResp, dirs,
                   directories, addDir>>

---------------------------------------------------------------------------
(* Directory registry (admin_add_directory of src/app/routes/admin.py over *)
(* the directories collection of src/app/database.py)                      *)

AddReqs == 1..MaxAdds

\* directory_data of Database.add_directory
directory_data(path) == [path |-> path, added_at |-> "utcnow"]

\* the collection of a deployment whose administrator registered games and
\* games/sub
Registered == << directory_data(Games), directory_data(GamesSub) >>

\* FOR doc IN directories FILTER doc.path == @path LIMIT 1 RETURN doc: the
\* _key of the first document with that path, 0 for None
get_directory_by_path(ds, path) ==
    IF \E k \in DOMAIN ds : ds[k].path = path
    THEN CHOOSE k \in DOMAIN ds :
            /\ ds[k].path = path
            /\ \A j \in DOMAIN ds : ds[j].path = path => k <= j
    ELSE 0

\* a request: result is what db.add_directory returned
IdleAdd == [pc |-> "idle", path |-> Games, result |-> 0, status |-> 0]

\* POST /admincp/directories/add: 400 when os.path.exists(directory_path) is
\* false; otherwise db.add_directory awaits get_directory_by_path
AddDirectory(r, directory_path) ==
    /\ budget > 0
    /\ budget' = budget - 1
    /\ addDir[r].pc = "idle"
    /\ addDir' = [addDir EXCEPT ![r] =
            IF exists(dirs, directory_path)
            THEN [IdleAdd EXCEPT !.pc = "check", !.path = directory_path]
            ELSE [IdleAdd EXCEPT !.pc = "done", !.path = directory_path,
                                 !.status = 400]]
    /\ UNCHANGED <<entries, nextKey, files, scan, lastScan, upload, sweep, hashReq,
                   now, app, reports, nextReport, report, activity, modResp, dirs,
                   directories, uploads>>

\* the lookup answers: "if existing: return existing.get('_key')";
\* otherwise directories_collection.insert is awaited
AddCheck(r) ==
    /\ addDir[r].pc = "check"
    /\ LET existing == get_directory_by_path(directories, addDir[r].path)
       IN  addDir' = [addDir EXCEPT ![r] =
                IF existing # 0
                THEN [@ EXCEPT !.pc = "done", !.result = existing, !.status = 200]
                ELSE [@ EXCEPT !.pc = "insert"]]
    /\ UNCHANGED <<entries, nextKey, files, scan, lastScan, upload, sweep, hashReq,
                   now, app, reports, nextReport, report, budget, activity, modResp,
                   dirs, directories, uploads>>

\* the insert answers with the new _key; the handler answers
\* {"success": True, "message": "Directory added successfully"}
AddInsert(r) ==
    /\ addDir[r].pc = "insert"
    /\ directories' = Append(directories, directory_data(addDir[r].path))
    /\ addDir' = [addDir EXCEPT ![r].pc = "done",
                                ![r].result = Len(directories) + 1,
                                ![r].status = 200]
    /\ UNCHANGED <<entries, nextKey, files, scan, lastScan, upload, sweep, hashReq,
                   now, app, reports, nextReport, report, budget, activity, modResp,
                   dirs, uploads>>

\* the response leaves
AddDone(r) ==
    /\ addDir[r].pc = "done"
    /\ addDir' = [addDir EXCEPT ![r] = IdleAdd]
    /\ UNCHANGED <<entries, nextKey, files, scan, lastScan, upload, sweep, hashReq,
                   now, app, reports, nextReport, report, budget, activity, modResp,
                   dirs, directories, uploads>>

---------------------------------------------------------------------------
(* Removal of entries (Database.delete_entry, which the route            *)
(* /api/entries/{entry_id}/delete reaches, and admin_clear_entries of     *)
(* src/app/routes/admin.py)                                                *)

\* await db.delete_entry(entry_id)
DeleteEntry(key) ==
    /\ budget > 0
    /\ budget' = budget - 1
    /\ entries' = delete_entry(entries, key)
    /\ UNCHANGED <<nextKey, files, scan, lastScan, upload, sweep, hashReq,
                   now, app, reports, nextReport, report, activity, modResp, dirs,
                   directories, addDir, uploads>>

\* POST /admincp/directories/clear: await db.clear_all_entries()
ClearEntries ==
    /\ budget > 0
    /\ budget' = budget - 1
    /\ entries' = clear_all_entries(entries)
    /\ UNCHANGED <<nextKey, files, scan, lastScan, upload, sweep, hashReq,
                   now, app, reports, nextReport, report, activity, modResp, dirs,
                   directories, addDir, uploads>>

---------------------------------------------------------------------------
(* The filesystem changes under the program: an operator copies a file in, *)
(* or removes one.                                                         *)

FileAppears(p, content) ==
    /\ budget > 0
    /\ budget' = budget - 1
    /\ ~isfile(files, p)
    /\ \A d \in Dirs : IsPrefix(d, p.dirs) => exists(dirs, d)
    /\ files' = [files EXCEPT ![p] = content]
    /\ UNCHANGED <<entries, nextKey, scan, lastScan, upload, sweep, hashReq,
                   now, app, reports, nextReport, report, activity, modResp, dirs,
                   directories, addDir, uploads>>

FileVanishes(p) ==
    /\ budget > 0
    /\ budget' = budget - 1
    /\ isfile(files, p)
    /\ files' = [files EXCEPT ![p] = 0]
    /\ UNCHANGED <<entries, nextKey, scan, lastScan, upload, sweep, hashReq,
                   now, app, reports, nextReport, report, activity, modResp, dirs,
                   directories, addDir, uploads>>

---------------------------------------------------------------------------
(* Hash worker and scheduler (src/app/main.py) *)

Tasks == {"periodic", "initial"}

HashDurations == {HashQuick, HashSlow}

\* the FILTER without its two 'processing' tests
NeedsAttentionAbsent(doc) ==
    /\ doc.type = "filepath"
    /\ \/ doc.md5_hash = None
       \/ doc.sha256_hash = None

\* the FILTER dropped: every filepath entry is selected
NeedsAttentionAll(doc) == doc.type = "filepath"

\* a FILTER that reads sha256_hash only
NeedsAttentionSha256(doc) ==
    /\ doc.type = "filepath"
    /\ \/ doc.sha256_hash = None
       \/ doc.sha256_hash = processing

\* FILTER doc.type == 'filepath' AND (doc.md5_hash == null OR
\* doc.sha256_hash == null OR doc.md5_hash == 'processing' OR
\* doc.sha256_hash == 'processing')
NeedsAttention(doc) ==
    /\ doc.type = "filepath"
    /\ \/ doc.md5_hash = None
       \/ doc.sha256_hash = None
       \/ doc.md5_hash = processing
       \/ doc.sha256_hash = processing

\* RETURN {_key, source, name, md5_hash, sha256_hash}: the snapshot a sweep
\* works from, in collection order
Snapshot(ents, k) ==
    [key |-> k, source |-> ents[k].source,
     md5_hash |-> ents[k].md5_hash, sha256_hash |-> ents[k].sha256_hash]

entries_to_process_any_kind(ents) ==
    LET picked == SelectSeq([i \in 1..MaxKey |-> i],
                            LAMBDA k : k \in DOMAIN ents /\
                                       NeedsAttention([ents[k] EXCEPT !.type = "filepath"]))
    IN  [i \in 1..Len(picked) |-> Snapshot(ents, picked[i])]

\* the cursor of the query read into a list
entries_to_process(ents) ==
    LET picked == SelectSeq([i \in 1..MaxKey |-> i],
                            LAMBDA k : k \in DOMAIN ents /\ NeedsAttention(ents[k]))
    IN  [i \in 1..Len(picked) |-> Snapshot(ents, picked[i])]

\* the two results stored the other way round
compute_hashes_sync_swapped(fs, source) ==
    <<hexdigest("sha256", fs[source]), hexdigest("md5", fs[source])>>

\* _compute_hashes_sync(filepath): both digests from one pass over the file
compute_hashes_sync(fs, source) ==
    <<hexdigest("md5", fs[source]), hexdigest("sha256", fs[source])>>

IdleSweep ==
    [pc |-> "sleep", wake |-> 0, entries_to_process |-> <<>>, i |-> 1,
     md5_result |-> None, sha256_result |-> None, errors |-> 0,
     failed |-> {}, aborted |-> 0, cancel |-> FALSE, at |-> ""]

\* the entry the for loop stands at
Current(task) == task.entries_to_process[task.i]

\* a periodic coroutine that returns after its sweep
sweep_end_once(task, t, clock) == [task EXCEPT !.pc = "done"]

\* the end of a sweep: the periodic coroutine loops back to its sleep, the
\* initial one returns
sweep_end(task, t, clock) ==
    IF t = "periodic"
    THEN [task EXCEPT !.pc = "sleep", !.wake = clock + SweepInterval]
    ELSE [task EXCEPT !.pc = "done"]

\* "for entry in entries_to_process" from position i up to its first await:
\* a missing file is skipped, after update_entry_hashes(entry_id, None, None)
\* when the snapshot holds 'processing'; a file that is there is claimed
RECURSIVE sweep_advance(_, _, _, _)
sweep_advance(task, t, fs, clock) ==
    IF task.i > Len(task.entries_to_process) THEN sweep_end(task, t, clock)
    ELSE LET entry == Current(task)
         IN  IF ~isfile(fs, entry.source)
             THEN IF entry.md5_hash = processing \/ entry.sha256_hash = processing
                  THEN [task EXCEPT !.pc = "release"]
                  ELSE sweep_advance([task EXCEPT !.i = @ + 1], t, fs, clock)
             ELSE [task EXCEPT !.pc = "claim"]

Running(t) == app # "stopped" /\ ~sweep[t].cancel

\* asyncio.sleep(600) / asyncio.sleep(5) returns; the query is sent
SweepWake(t) ==
    /\ Running(t)
    /\ sweep[t].pc = "sleep"
    /\ now >= sweep[t].wake
    /\ sweep' = [sweep EXCEPT ![t].pc = "query"]
    /\ UNCHANGED <<entries, nextKey, files, scan, lastScan, upload, hashReq,
                   now, app, reports, nextReport, report, budget, activity, modResp, dirs,
                   directories, addDir, uploads>>

\* the cursor is read into entries_to_process; an empty list ends the sweep
SweepQuery(t) ==
    /\ Running(t)
    /\ sweep[t].pc = "query"
    /\ sweep' = [sweep EXCEPT ![t] =
            sweep_advance([@ EXCEPT !.entries_to_process = entries_to_process(entries),
                                    !.i = 1, !.errors = 0, !.failed = {}],
                          t, files, now)]
    /\ UNCHANGED <<entries, nextKey, files, scan, lastScan, upload, hashReq,
                   now, app, reports, nextReport, report, budget, activity, modResp, dirs,
                   directories, addDir, uploads>>

\* db.db.aql.execute raises: the outer "except Exception" logs the error;
\* the periodic coroutine goes back to its sleep, the initial one returns
SweepQueryRejected(t) ==
    /\ Running(t)
    /\ sweep[t].pc = "query"
    /\ sweep' = [sweep EXCEPT ![t] =
            sweep_end([@ EXCEPT !.entries_to_process = <<>>, !.i = 1,
                                !.aborted = @ + 1],
                      t, now)]
    /\ UNCHANGED <<entries, nextKey, files, scan, lastScan, upload, hashReq,
                   now, app, reports, nextReport, report, budget, activity, modResp, dirs,
                   directories, addDir, uploads>>

\* await db.update_entry_hashes(entry_id, None, None) for a missing file
SweepRelease(t) ==
    /\ Running(t)
    /\ sweep[t].pc = "release"
    /\ entries' = update_entry_hashes(entries, Current(sweep[t]).key, None, None)
    /\ sweep' = [sweep EXCEPT ![t] =
            sweep_advance([@ EXCEPT !.i = @ + 1], t, files, now)]
    /\ UNCHANGED <<nextKey, files, scan, lastScan, upload, hashReq,
                   now, app, reports, nextReport, report, budget, activity, modResp, dirs,
                   directories, addDir, uploads>>

\* the worker thread started with the claim not yet written
SweepClaimLate(t, duration) ==
    /\ Running(t)
    /\ sweep[t].pc = "claim"
    /\ sweep' = [sweep EXCEPT ![t].pc = "hash", ![t].wake = now + duration]
    /\ UNCHANGED <<entries, nextKey, files, scan, lastScan, upload, hashReq,
                   now, app, reports, nextReport, report, budget, activity, modResp, dirs,
                   directories, addDir, uploads>>

\* await db.update_entry_hashes(entry_id, "processing", "processing"), then
\* _compute_hashes_sync starts in a worker thread
SweepClaim(t, duration) ==
    /\ Running(t)
    /\ sweep[t].pc = "claim"
    /\ entries' = update_entry_hashes(entries, Current(sweep[t]).key,
                                      processing, processing)
    /\ sweep' = [sweep EXCEPT ![t].pc = "hash", ![t].wake = now + duration]
    /\ UNCHANGED <<nextKey, files, scan, lastScan, upload, hashReq,
                   now, app, reports, nextReport, report, budget, activity, modResp, dirs,
                   directories, addDir, uploads>>

\* the store rejects the claim write: update_entry_hashes catches the
\* exception, logs it and returns False, and the hashing starts all the same
SweepClaimRejected(t, duration) ==
    /\ Running(t)
    /\ sweep[t].pc = "claim"
    /\ sweep' = [sweep EXCEPT ![t].pc = "hash", ![t].wake = now + duration]
    /\ UNCHANGED <<entries, nextKey, files, scan, lastScan, upload, hashReq,
                   now, app, reports, nextReport, report, budget, activity, modResp, dirs,
                   directories, addDir, uploads>>

\* a loop that goes on to its next entry as soon as the digests are there,
\* the persist write left for later
SweepHashedEager(t) ==
    /\ Running(t)
    /\ sweep[t].pc = "hash"
    /\ now >= sweep[t].wake
    /\ sweep' = [sweep EXCEPT ![t] =
            sweep_advance([@ EXCEPT !.i = @ + 1], t, files, now)]
    /\ UNCHANGED <<entries, nextKey, files, scan, lastScan, upload, hashReq,
                   now, app, reports, nextReport, report, budget, activity, modResp, dirs,
                   directories, addDir, uploads>>

\* await asyncio.to_thread(_compute_hashes_sync, filepath) returns the two
\* digests, or raises when the file cannot be opened: the except branch
\* logs the error and awaits update_entry_hashes(entry.get("_key"), None, None)
SweepHashed(t) ==
    /\ Running(t)
    /\ sweep[t].pc = "hash"
    /\ now >= sweep[t].wake
    /\ LET source == Current(sweep[t]).source
       IN  sweep' = [sweep EXCEPT ![t] =
              IF isfile(files, source)
              THEN [@ EXCEPT !.pc = "persist",
                             !.md5_result = compute_hashes_sync(files, source)[1],
                             !.sha256_result = compute_hashes_sync(files, source)[2]]
              ELSE [@ EXCEPT !.pc = "cleanup", !.errors = @ + 1,
                             !.failed = @ \cup {Current(sweep[t]).key}]]
    /\ UNCHANGED <<entries, nextKey, files, scan, lastScan, upload, hashReq,
                   now, app, reports, nextReport, report, budget, activity, modResp, dirs,
                   directories, addDir, uploads>>

\* a read of the file fails (EIO): the same except branch
SweepHashFails(t) ==
    /\ Running(t)
    /\ sweep[t].pc = "hash"
    /\ now >= sweep[t].wake
    /\ sweep' = [sweep EXCEPT ![t].pc = "cleanup", ![t].errors = @ + 1,
                               ![t].failed = @ \cup {Current(sweep[t]).key}]
    /\ UNCHANGED <<entries, nextKey, files, scan, lastScan, upload, hashReq,
                   now, app, reports, nextReport, report, budget, activity, modResp, dirs,
                   directories, addDir, uploads>>

\* await db.update_entry_hashes(entry_id, md5_result, sha256_result), then
\* asyncio.sleep(1)
SweepPersist(t) ==
    /\ Running(t)
    /\ sweep[t].pc = "persist"
    /\ entries' = update_entry_hashes(entries, Current(sweep[t]).key,
                                      sweep[t].md5_result, sweep[t].sha256_result)
    /\ sweep' = [sweep EXCEPT ![t].pc = "pause", ![t].wake = now + ItemDelay]
    /\ UNCHANGED <<nextKey, files, scan, lastScan, upload, hashReq,
                   now, app, reports, nextReport, report, budget, activity, modResp, dirs,
                   directories, addDir, uploads>>

\* the store rejects the write of the digests: update_entry_hashes returns
\* False, which the loop does not read, and asyncio.sleep(1) follows
SweepPersistRejected(t) ==
    /\ Running(t)
    /\ sweep[t].pc = "persist"
    /\ sweep' = [sweep EXCEPT ![t].pc = "pause", ![t].wake = now + ItemDelay,
                               ![t].failed = @ \cup {Current(sweep[t]).key}]
    /\ UNCHANGED <<entries, nextKey, files, scan, lastScan, upload, hashReq,
                   now, app, reports, nextReport, report, budget, activity, modResp, dirs,
                   directories, addDir, uploads>>

\* asyncio.sleep(1) returns: the next entry
SweepPause(t) ==
    /\ Running(t)
    /\ sweep[t].pc = "pause"
    /\ now >= sweep[t].wake
    /\ sweep' = [sweep EXCEPT ![t] =
            sweep_advance([@ EXCEPT !.i = @ + 1], t, files, now)]
    /\ UNCHANGED <<entries, nextKey, files, scan, lastScan, upload, hashReq,
                   now, app, reports, nextReport, report, budget, activity, modResp, dirs,
                   directories, addDir, uploads>>

\* except Exception: await db.update_entry_hashes(entry.get("_key"), None,
\* None), then the next entry (no sleep on this path)
SweepCleanup(t) ==
    /\ Running(t)
    /\ sweep[t].pc = "cleanup"
    /\ entries' = update_entry_hashes(entries, Current(sweep[t]).key, None, None)
    /\ sweep' = [sweep EXCEPT ![t] =
            sweep_advance([@ EXCEPT !.i = @ + 1], t, files, now)]
    /\ UNCHANGED <<nextKey, files, scan, lastScan, upload, hashReq,
                   now, app, reports, nextReport, report, budget, activity, modResp, dirs,
                   directories, addDir, uploads>>

\* the store call a coroutine is suspended in, as the store applies it
pending_write(ents, task) ==
    CASE task.pc = "claim" ->
            update_entry_hashes(ents, Current(task).key, processing, processing)
      [] task.pc = "persist" ->
            update_entry_hashes(ents, Current(task).key,
                                task.md5_result, task.sha256_result)
      [] task.pc \in {"release", "cleanup"} ->
            update_entry_hashes(ents, Current(task).key, None, None)
      [] OTHER -> ents

\* a coroutine that stops where it stands: its request may or may not have
\* reached the store before the await was abandoned
stopped_at(task) == [task EXCEPT !.pc = "done", !.at = task.pc]

\* shutdown(): background_hash_task.cancel(), then await background_hash_task
ShutdownBegin ==
    /\ app = "running"
    /\ app' = "stopping"
    /\ sweep' = [sweep EXCEPT !["periodic"].cancel = TRUE]
    /\ UNCHANGED <<entries, nextKey, files, scan, lastScan, upload, hashReq,
                   now, reports, nextReport, report, budget, activity, modResp, dirs,
                   directories, addDir, uploads>>

\* CancelledError is raised in the await the periodic coroutine is suspended
\* in; it is no Exception, so the inner "except Exception" does not see it and
\* "except asyncio.CancelledError: break" ends the coroutine
SweepCancelled(applied) ==
    /\ app = "stopping"
    /\ sweep["periodic"].cancel
    /\ sweep["periodic"].pc # "done"
    /\ entries' = IF applied THEN pending_write(entries, sweep["periodic"]) ELSE entries
    /\ sweep' = [sweep EXCEPT !["periodic"] = stopped_at(@)]
    /\ UNCHANGED <<nextKey, files, scan, lastScan, upload, hashReq,
                   now, app, reports, nextReport, report, budget, activity, modResp, dirs,
                   directories, addDir, uploads>>

\* the periodic task has ended: db.disconnect() and the process exits; the
\* task of run_initial_hash_computation was never kept, is not awaited and
\* ends with the event loop wherever it stands
ShutdownEnd(applied) ==
    /\ app = "stopping"
    /\ sweep["periodic"].pc = "done"
    /\ app' = "stopped"
    /\ IF sweep["initial"].pc = "done"
       THEN UNCHANGED <<entries, sweep, activity, modResp, dirs,
                   directories, addDir, uploads>>
       ELSE /\ entries' = IF applied THEN pending_write(entries, sweep["initial"])
                                      ELSE entries
            /\ sweep' = [sweep EXCEPT !["initial"] = stopped_at(@)]
    /\ UNCHANGED <<nextKey, files, scan, lastScan, upload, hashReq,
                   now, reports, nextReport, report, budget, activity, modResp, dirs,
                   directories, addDir, uploads>>

\* the event loop's clock: time passes to the next timer once no coroutine
\* can run
TimerPcs == {"sleep", "hash", "pause"}

Tick ==
    /\ app = "running"
    /\ \A t \in Tasks : sweep[t].pc \in TimerPcs \cup {"done"}
    /\ \A t \in Tasks : sweep[t].pc \in TimerPcs => sweep[t].wake > now
    /\ \E t \in Tasks :
          /\ sweep[t].pc \in TimerPcs
          /\ \A u \in Tasks : sweep[u].pc \in TimerPcs => sweep[t].wake <= sweep[u].wake
          /\ sweep[t].wake <= MaxTime
          /\ now' = sweep[t].wake
    /\ UNCHANGED <<entries, nextKey, files, scan, lastScan, upload, sweep, hashReq,
                   app, reports, nextReport, report, budget, activity, modResp, dirs,
                   directories, addDir, uploads>>

---------------------------------------------------------------------------
(* On-demand hashing (src/app/routes/api.py, compute_file_hashes) *)

\* a lookup that answers a document for every key, stored or not
get_entry_by_id_any(ents, key) ==
    [id |-> key, name |-> file_name(Universe[1]), source |-> Universe[1],
     type |-> "filepath"]

\* Database.get_entry_by_id: the dict it builds names id, name, source, type,
\* file_type, size, created_at, created_by and metadata, and no digest; None
\* for a key the collection does not hold
get_entry_by_id(ents, key) ==
    IF key \in DOMAIN ents
    THEN [id |-> key, name |-> ents[key].name, source |-> ents[key].source,
          type |-> ents[key].type]
    ELSE None

\* dict.get(field): None for a key the dict does not hold
get(dict, field) == IF field \in DOMAIN dict THEN dict[field] ELSE None

\* a request: status and answer are the JSON response's (success with
\* "cached", success with "processing", or an error)
IdleHashReq ==
    [pc |-> "idle", key |-> 0, source |-> Universe[1],
     md5_result |-> None, sha256_result |-> None, status |-> 0, answer |-> ""]

\* the response of compute_file_hashes
Respond(status, answer) == [IdleHashReq EXCEPT !.status = status, !.answer = answer]

\* the handler without its test of the file
HashGetUnchecked ==
    /\ hashReq.pc = "get"
    /\ hashReq' =
          LET entry == get_entry_by_id(entries, hashReq.key)
          IN  IF entry = None THEN Respond(404, "error")
              ELSE IF Truthy(get(entry, "md5_hash")) /\ Truthy(get(entry, "sha256_hash"))
                   THEN Respond(200, "cached")
                   ELSE IF entry.type # "filepath" THEN Respond(400, "error")
                   ELSE [hashReq EXCEPT !.pc = "claim", !.source = entry.source,
                                        !.status = 200, !.answer = "processing"]
    /\ UNCHANGED <<entries, nextKey, files, scan, lastScan, upload, sweep,
                   now, app, reports, nextReport, report, budget, activity, modResp, dirs,
                   directories, addDir, uploads>>

\* GET /api/entries/{entry_id}/hashes: db.get_entry_by_id is awaited
HashRequest(key) ==
    /\ budget > 0
    /\ budget' = budget - 1
    /\ app = "running"
    /\ hashReq.pc = "idle"
    /\ hashReq' = [IdleHashReq EXCEPT !.pc = "get", !.key = key]
    /\ UNCHANGED <<entries, nextKey, files, scan, lastScan, upload, sweep,
                   now, app, reports, nextReport, report, activity, modResp, dirs,
                   directories, addDir, uploads>>

\* the entry arrives: 404 when unknown, the cached digests when the dict
\* holds both, 400 for a url, 404 for a missing file; otherwise the response
\* is sent and _compute_and_store_hashes starts as a background task
HashGet ==
    /\ hashReq.pc = "get"
    /\ hashReq' =
          LET entry == get_entry_by_id(entries, hashReq.key)
          IN  IF entry = None THEN Respond(404, "error")
              ELSE IF Truthy(get(entry, "md5_hash")) /\ Truthy(get(entry, "sha256_hash"))
                   THEN Respond(200, "cached")
                   ELSE IF entry.type # "filepath" THEN Respond(400, "error")
                   ELSE IF ~isfile(files, entry.source) THEN Respond(404, "error")
                   ELSE [hashReq EXCEPT !.pc = "claim", !.source = entry.source,
                                        !.status = 200, !.answer = "processing"]
    /\ UNCHANGED <<entries, nextKey, files, scan, lastScan, upload, sweep,
                   now, app, reports, nextReport, report, budget, activity, modResp, dirs,
                   directories, addDir, uploads>>

\* _compute_and_store_hashes: update_entry_hashes(entry_id, "processing",
\* "processing"), then the worker thread
HashReqClaim ==
    /\ hashReq.pc = "claim"
    /\ entries' = update_entry_hashes(entries, hashReq.key, processing, processing)
    /\ hashReq' = [hashReq EXCEPT !.pc = "hash"]
    /\ UNCHANGED <<nextKey, files, scan, lastScan, upload, sweep,
                   now, app, reports, nextReport, report, budget, activity, modResp, dirs,
                   directories, addDir, uploads>>

\* asyncio.to_thread(_compute_hashes_sync, filepath) returns or raises
HashReqHashed ==
    /\ hashReq.pc = "hash"
    /\ hashReq' =
          IF isfile(files, hashReq.source)
          THEN [hashReq EXCEPT !.pc = "persist",
                   !.md5_result = compute_hashes_sync(files, hashReq.source)[1],
                   !.sha256_result = compute_hashes_sync(files, hashReq.source)[2]]
          ELSE [hashReq EXCEPT !.pc = "cleanup"]
    /\ UNCHANGED <<entries, nextKey, files, scan, lastScan, upload, sweep,
                   now, app, reports, nextReport, report, budget, activity, modResp, dirs,
                   directories, addDir, uploads>>

\* update_entry_hashes(entry_id, md5_result, sha256_result)
HashReqPersist ==
    /\ hashReq.pc = "persist"
    /\ entries' = update_entry_hashes(entries, hashReq.key,
                                      hashReq.md5_result, hashReq.sha256_result)
    /\ hashReq' = IdleHashReq
    /\ UNCHANGED <<nextKey, files, scan, lastScan, upload, sweep,
                   now, app, reports, nextReport, report, budget, activity, modResp, dirs,
                   directories, addDir, uploads>>

\* except Exception: update_entry_hashes(entry_id, None, None)
HashReqCleanup ==
    /\ hashReq.pc = "cleanup"
    /\ entries' = update_entry_hashes(entries, hashReq.key, None, None)
    /\ hashReq' = IdleHashReq
    /\ UNCHANGED <<nextKey, files, scan, lastScan, upload, sweep,
                   now, app, reports, nextReport, report, budget, activity, modResp, dirs,
                   directories, addDir, uploads>>

---------------------------------------------------------------------------
(* Report submission (src/app/routes/api.py, submit_report) *)

Submits == 1..MaxSubmits

Reasons == {"", "corrupted"}

\* report_data of Database.create_report
report_data(entry_id, reason) ==
    [entry_id |-> entry_id, username |-> "user", reason |-> reason,
     status |-> "open", created_at |-> "utcnow",
     resolved_at |-> "null", resolved_by |-> "null"]

\* create_report inserting the report twice (a retried insert)
create_report_twice(reps, key, entry_id, reason) ==
    [k \in DOMAIN reps \cup {key, key + 1} |->
        IF k \in {key, key + 1} THEN report_data(entry_id, reason) ELSE reps[k]]

\* reports_collection.insert(report_data)
create_report(reps, key, entry_id, reason) ==
    [k \in DOMAIN reps \cup {key} |->
        IF k = key THEN report_data(entry_id, reason) ELSE reps[k]]

IdleSubmit ==
    [pc |-> "idle", entry_id |-> 0, reason |-> "", report_id |-> 0, status |-> 0]

\* POST /api/reports/submit: a missing entry_id (0 here) or reason is
\* answered 400; otherwise db.get_entry_by_id is awaited
SubmitReport(r, entry_id, reason) ==
    /\ budget > 0
    /\ budget' = budget - 1
    /\ report[r].pc = "idle"
    /\ report' = [report EXCEPT ![r] =
            IF entry_id = 0 \/ reason = ""
            THEN [IdleSubmit EXCEPT !.pc = "done", !.entry_id = entry_id,
                                    !.reason = reason, !.status = 400]
            ELSE [IdleSubmit EXCEPT !.pc = "get", !.entry_id = entry_id,
                                    !.reason = reason]]
    /\ UNCHANGED <<entries, nextKey, files, scan, lastScan, upload, sweep, hashReq,
                   now, app, reports, nextReport, activity, modResp, dirs,
                   directories, addDir, uploads>>

\* the entry arrives: 404 when unknown, otherwise db.create_report is awaited
SubmitGet(r) ==
    /\ report[r].pc = "get"
    /\ report' = [report EXCEPT ![r] =
            IF get_entry_by_id(entries, report[r].entry_id) # None
            THEN [@ EXCEPT !.pc = "create"]
            ELSE [@ EXCEPT !.pc = "done", !.status = 404]]
    /\ UNCHANGED <<entries, nextKey, files, scan, lastScan, upload, sweep, hashReq,
                   now, app, reports, nextReport, budget, activity, modResp, dirs,
                   directories, addDir, uploads>>

\* the report is inserted; db.mark_entry_corrupt(entry_id, True) is awaited
SubmitCreate(r) ==
    /\ report[r].pc = "create"
    /\ nextReport <= MaxReports
    /\ reports' = create_report(reports, nextReport, report[r].entry_id, report[r].reason)
    /\ nextReport' = nextReport + 1
    /\ report' = [report EXCEPT ![r].pc = "flag", ![r].report_id = nextReport]
    /\ UNCHANGED <<entries, nextKey, files, scan, lastScan, upload, sweep, hashReq,
                   now, app, budget, activity, modResp, dirs,
                   directories, addDir, uploads>>

\* the store rejects the insert: create_report catches the exception and
\* returns None, and the handler answers 500 "Failed to create report"
SubmitCreateFails(r) ==
    /\ report[r].pc = "create"
    /\ report' = [report EXCEPT ![r].pc = "done", ![r].status = 500]
    /\ UNCHANGED <<entries, nextKey, files, scan, lastScan, upload, sweep, hashReq,
                   now, app, reports, nextReport, budget, activity, modResp, dirs,
                   directories, addDir, uploads>>

\* the flag is written; db.add_activity_log is awaited
SubmitFlag(r) ==
    /\ report[r].pc = "flag"
    /\ entries' = mark_entry_corrupt(entries, report[r].entry_id, TRUE)
    /\ report' = [report EXCEPT ![r].pc = "log"]
    /\ UNCHANGED <<nextKey, files, scan, lastScan, upload, sweep, hashReq,
                   now, app, reports, nextReport, budget, activity, modResp, dirs,
                   directories, addDir, uploads>>

\* the store rejects the update: mark_entry_corrupt catches the exception
\* and returns False, which the handler does not read
SubmitFlagFails(r) ==
    /\ report[r].pc = "flag"
    /\ report' = [report EXCEPT ![r].pc = "log"]
    /\ UNCHANGED <<entries, nextKey, files, scan, lastScan, upload, sweep, hashReq,
                   now, app, reports, nextReport, budget, activity, modResp, dirs,
                   directories, addDir, uploads>>

\* the 'report_submitted' activity is logged; the handler builds
\* {"success": True, "message": "Report submitted successfully"}
SubmitLog(r) ==
    /\ report[r].pc = "log"
    /\ activity' = add_activity_log(activity,
                        [event_type |-> "report_submitted",
                         entry_id |-> report[r].entry_id])
    /\ report' = [report EXCEPT ![r].pc = "done", ![r].status = 200]
    /\ UNCHANGED <<entries, nextKey, files, scan, lastScan, upload, sweep, hashReq,
                   now, app, reports, nextReport, budget, modResp, dirs,
                   directories, addDir, uploads>>

\* the response leaves
SubmitDone(r) ==
    /\ report[r].pc = "done"
    /\ report' = [report EXCEPT ![r] = IdleSubmit]
    /\ UNCHANGED <<entries, nextKey, files, scan, lastScan, upload, sweep, hashReq,
                   now, app, reports, nextReport, budget, activity, modResp, dirs,
                   directories, addDir, uploads>>

---------------------------------------------------------------------------
(* Moderation: the corrupt-games pages of src/app/routes/mod.py and the    *)
(* report methods of src/app/database.py                                   *)

\* what a moderator's request answers: n counts the requests answered
IdleMod == [n |-> 0, op |-> "", status |-> 0, count |-> 0, listing |-> <<>>]

Answer(op, status) ==
    [IdleMod EXCEPT !.n = modResp.n + 1, !.op = op, !.status = status]

\* POST /modcp/corrupt-games/mark-valid: 400 without an entry_id (0 here),
\* 404 for an entry db.get_entry_by_id does not find; otherwise
\* db.mark_entry_corrupt(entry_id, False), then the 'entry_marked_valid'
\* activity
MarkEntryValid(key) ==
    /\ budget > 0
    /\ budget' = budget - 1
    /\ IF key = 0
       THEN /\ modResp' = Answer("mark_valid", 400)
            /\ UNCHANGED <<entries, activity>>
       ELSE IF get_entry_by_id(entries, key) = None
       THEN /\ modResp' = Answer("mark_valid", 404)
            /\ UNCHANGED <<entries, activity>>
       ELSE /\ entries' = mark_entry_corrupt(entries, key, FALSE)
            /\ activity' = add_activity_log(activity,
                                [event_type |-> "entry_marked_valid", entry_id |-> key])
            /\ modResp' = Answer("mark_valid", 200)
    /\ UNCHANGED <<nextKey, files, scan, lastScan, upload, sweep, hashReq,
                   now, app, reports, nextReport, report, dirs,
                   directories, addDir, uploads>>

\* a resolve that closes every report on the entry of the one it names
resolve_report_of_entry(reps, report_id, resolved_by) ==
    IF report_id \in DOMAIN reps
    THEN [id \in DOMAIN reps |->
            IF reps[id].entry_id = reps[report_id].entry_id
            THEN [reps[id] EXCEPT !.status = "resolved", !.resolved_at = "utcnow",
                                  !.resolved_by = resolved_by]
            ELSE reps[id]]
    ELSE reps

\* a resolve that writes the status alone
resolve_report_status_only(reps, report_id, resolved_by) ==
    IF report_id \in DOMAIN reps
    THEN [reps EXCEPT ![report_id].status = "resolved"]
    ELSE reps

\* Database.resolve_report: reports_collection.update of status, resolved_at
\* and resolved_by; the update of a key the collection does not hold raises
\* and nothing is written
resolve_report(reps, report_id, resolved_by) ==
    IF report_id \in DOMAIN reps
    THEN [reps EXCEPT ![report_id].status = "resolved",
                      ![report_id].resolved_at = "utcnow",
                      ![report_id].resolved_by = resolved_by]
    ELSE reps

ReportKeys == 1..MaxReports

\* a resolve that also clears the flag of the entry the report names
ResolveReportClearing(report_id) ==
    /\ budget > 0
    /\ budget' = budget - 1
    /\ reports' = resolve_report(reports, report_id, "moderator")
    /\ entries' = IF report_id \in DOMAIN reports
                  THEN mark_entry_corrupt(entries, reports[report_id].entry_id, FALSE)
                  ELSE entries
    /\ modResp' = Answer("resolve_report",
                         IF report_id \in DOMAIN reports THEN 200 ELSE 500)
    /\ UNCHANGED <<nextKey, files, scan, lastScan, upload, sweep, hashReq,
                   now, app, nextReport, report, activity, dirs,
                   directories, addDir, uploads>>

\* await db.resolve_report(report_id, ...) returns True (200 here) or False
\* (500 here)
ResolveReport(report_id) ==
    /\ budget > 0
    /\ budget' = budget - 1
    /\ reports' = resolve_report(reports, report_id, "moderator")
    /\ modResp' = Answer("resolve_report",
                         IF report_id \in DOMAIN reports THEN 200 ELSE 500)
    /\ UNCHANGED <<entries, nextKey, files, scan, lastScan, upload, sweep, hashReq,
                   now, app, nextReport, report, activity, dirs,
                   directories, addDir, uploads>>

\* a clear-all that answers the number of entries it looked at
clear_all_corrupt_flags_total(ents) ==
    [entries |-> [k \in DOMAIN ents |->
                    IF ents[k].corrupt = "true"
                    THEN [ents[k] EXCEPT !.corrupt = "false"]
                    ELSE ents[k]],
     count   |-> Cardinality(DOMAIN ents)]

\* Database.clear_all_corrupt_flags: every entry whose corrupt is true gets
\* corrupt = false; the answer is the number of entries changed
clear_all_corrupt_flags(ents) ==
    [entries |-> [k \in DOMAIN ents |->
                    IF ents[k].corrupt = "true"
                    THEN [ents[k] EXCEPT !.corrupt = "false"]
                    ELSE ents[k]],
     count   |-> Cardinality({ k \in DOMAIN ents : ents[k].corrupt = "true" })]

\* POST /modcp/corrupt-games/clear-all: count = await
\* db.clear_all_corrupt_flags(), the 'clear_all_corrupt_flags' activity with
\* entries_cleared = count, and "Cleared corrupt flag from {count} entries"
ClearAllCorruptFlags ==
    /\ budget > 0
    /\ budget' = budget - 1
    /\ LET cleared == clear_all_corrupt_flags(entries)
       IN  /\ entries' = cleared.entries
           /\ activity' = add_activity_log(activity,
                               [event_type |-> "clear_all_corrupt_flags",
                                entry_id |-> 0,
                                entries_cleared |-> cleared.count])
           /\ modResp' = [Answer("clear_all", 200) EXCEPT !.count = cleared.count]
    /\ UNCHANGED <<nextKey, files, scan, lastScan, upload, sweep, hashReq,
                   now, app, reports, nextReport, report, dirs,
                   directories, addDir, uploads>>

\* the order of SORT entry.name ASC on the names of the model
Alphabet == << "a", "b", "c", "d", "e" >>

\* the place of a name in that order: "a" before "a_1" before "b"
name_rank(name) ==
    LET rank == CHOOSE i \in DOMAIN Alphabet : Alphabet[i] = name.stem
    IN  rank * (Len(Universe) + 1) + name.n

\* the keys of a set in ascending order of their rank, keys breaking ties
RECURSIVE sort_keys(_, _)
sort_keys(S, rank) ==
    IF S = {} THEN <<>>
    ELSE LET first == CHOOSE k \in S :
                        \A j \in S \ {k} :
                            rank[k] < rank[j] \/ (rank[k] = rank[j] /\ k < j)
         IN  <<first>> \o sort_keys(S \ {first}, rank)

\* the open reports on an entry: SORT report.created_at DESC, which is
\* highest key first
open_reports_of(reps, k) ==
    sort_keys({ id \in DOMAIN reps : reps[id].entry_id = k /\ reps[id].status = "open" },
              [id \in DOMAIN reps |-> 0 - id])

\* get_corrupt_entries listing every entry that has an open report
get_corrupt_entries_reported(ents, reps) ==
    LET keys == sort_keys({ k \in DOMAIN ents : open_reports_of(reps, k) # <<>> },
                          [k \in DOMAIN ents |-> name_rank(ents[k].name)])
    IN  [i \in DOMAIN keys |->
            [key |-> keys[i], name |-> ents[keys[i]].name,
             open_reports |-> open_reports_of(reps, keys[i]),
             report_count |-> Len(open_reports_of(reps, keys[i]))]]

\* Database.get_corrupt_entries: FOR entry IN entries FILTER entry.corrupt ==
\* true, with open_reports (newest first, which is highest key first) and
\* report_count = LENGTH(open_reports), SORT entry.name ASC
get_corrupt_entries(ents, reps) ==
    LET keys == sort_keys({ k \in DOMAIN ents : ents[k].corrupt = "true" },
                          [k \in DOMAIN ents |-> name_rank(ents[k].name)])
    IN  [i \in DOMAIN keys |->
            [key |-> keys[i], name |-> ents[keys[i]].name,
             open_reports |-> open_reports_of(reps, keys[i]),
             report_count |-> Len(open_reports_of(reps, keys[i]))]]

\* a listing without the corrupt filter (exclude_corrupt = False)
get_all_entries_unfiltered(ents, reps, exclude_corrupt) ==
    LET keys == sort_keys(DOMAIN ents, [k \in DOMAIN ents |-> name_rank(ents[k].name)])
    IN  [i \in DOMAIN keys |->
            [key |-> keys[i], name |-> ents[keys[i]].name,
             report_count |-> Len(open_reports_of(reps, keys[i]))]]

\* Database.get_all_entries_with_download_counts without a search term:
\* FOR entry IN entries FILTER true AND (entry.corrupt == null OR
\* entry.corrupt == false), report_count the number of open reports on the
\* entry, SORT entry.name ASC
get_all_entries_with_download_counts(ents, reps, exclude_corrupt) ==
    LET keys == sort_keys({ k \in DOMAIN ents :
                               exclude_corrupt => ents[k].corrupt \in {"null", "false"} },
                          [k \in DOMAIN ents |-> name_rank(ents[k].name)])
    IN  [i \in DOMAIN keys |->
            [key |-> keys[i], name |-> ents[keys[i]].name,
             report_count |-> Len(open_reports_of(reps, keys[i]))]]

\* GET /api/entries: {"entries": db.get_all_entries_with_download_counts(
\* search_query, sort_by)}, exclude_corrupt left at its default
list_entries ==
    /\ budget > 0
    /\ budget' = budget - 1
    /\ modResp' = [Answer("list_entries", 200) EXCEPT
                        !.listing = get_all_entries_with_download_counts(
                                        entries, reports, TRUE)]
    /\ UNCHANGED <<entries, nextKey, files, scan, lastScan, upload, sweep, hashReq,
                   now, app, reports, nextReport, report, activity, dirs,
                   directories, addDir, uploads>>

\* GET /modcp/corrupt-games: the page lists db.get_corrupt_entries()
ListCorruptEntries ==
    /\ budget > 0
    /\ budget' = budget - 1
    /\ modResp' = [Answer("list", 200) EXCEPT
                        !.listing = get_corrupt_entries(entries, reports)]
    /\ UNCHANGED <<entries, nextKey, files, scan, lastScan, upload, sweep, hashReq,
                   now, app, reports, nextReport, report, activity, dirs,
                   directories, addDir, uploads>>

---------------------------------------------------------------------------
(* Initial states: the process has run startup() over a store and a disk   *)
(* left by earlier runs.                                                   *)

\* startup(): both coroutines are created and stand in their first sleep
StartedSweeps ==
    [t \in Tasks |->
        [IdleSweep EXCEPT !.wake = IF t = "periodic" THEN SweepInterval
                                                      ELSE InitialDelay]]

Still ==
    /\ directories = Registered
    /\ addDir = [r \in AddReqs |-> IdleAdd]
    /\ uploads = <<>>
    /\ scan = [r \in ScanReqs |-> IdleScan]
    /\ lastScan = NoScan
    /\ upload = IdleUpload
    /\ sweep = StartedSweeps
    /\ hashReq = IdleHashReq
    /\ now = 0
    /\ app = "running"
    /\ reports = <<>>
    /\ nextReport = 1
    /\ report = [r \in Submits |-> IdleSubmit]
    /\ activity = <<>>
    /\ modResp = IdleMod

\* nothing under way and every registered directory on disk
Quiet ==
    /\ Still
    /\ dirs = Dirs

\* an empty store over a disk holding any of the files of games and
\* games/sub, each with content 1
InitScan ==
    /\ entries = <<>>
    /\ nextKey = 1
    /\ files \in { fs \in [Paths -> {0, 1}] : \A p \in DeepPaths : fs[p] = 0 }
    /\ budget = MaxRequests
    /\ Quiet

---------------------------------------------------------------------------
(* Ingestion: scans, rescans and uploads interleaving at their awaits,     *)
(* over a disk that changes.                                               *)

NextScan ==
    \/ \E r \in ScanReqs, target \in ScanTargets : ScanStart(r, target)
    \/ \E r \in ScanReqs : ScanExists(r)
    \/ \E r \in ScanReqs : ScanInsert(r)
    \/ \E r \in ScanReqs : ScanFinish(r)
    \/ \E stem \in UploadStems, ext \in UploadExts, c \in Contents :
          UploadWrite(stem, ext, c)
    \/ UploadDupName
    \/ UploadSha256
    \/ UploadInsert
    \/ UploadSetHash
    \/ \E p \in Paths \ DeepPaths : FileAppears(p, 1)
    \/ \E p \in Paths : FileVanishes(p)

SpecScan == InitScan /\ [][NextScan]_vars

(* One administrator scanning again and again over a disk nobody touches *)

NextRescan ==
    \/ \E target \in ScanTargets : ScanStart(1, target)
    \/ ScanExists(1)
    \/ ScanInsert(1)
    \/ ScanFinish(1)

SpecRescan == InitScan /\ [][NextRescan]_vars

(* The same administrator over files that cannot be read and a store that  *)
(* rejects inserts                                                         *)

NextScanFaults ==
    \/ \E target \in ScanTargets : ScanStart(1, target)
    \/ ScanExists(1)
    \/ ScanStatFails(1)
    \/ ScanInsert(1)
    \/ ScanInsertFails(1)
    \/ ScanFinish(1)

SpecScanFaults == InitScan /\ [][NextScanFaults]_vars

(* The same administrator with registered directories that are no longer   *)
(* on disk: a directory that is gone took its files and its                 *)
(* subdirectories with it                                                  *)

OnDisk(ds, fs) ==
    /\ \A d \in ds, e \in Dirs : IsPrefix(e, d) => e \in ds
    /\ \A p \in Paths : fs[p] # 0 =>
            /\ p \notin DeepPaths
            /\ \A d \in Dirs : IsPrefix(d, p.dirs) => d \in ds

RescanTargets ==
    { ScanDirectory(GamesSub), RescanAll(<<GamesSub>>),
      RescanAll(<<GamesSub, GamesD1>>), RescanAll(<<GamesD1, GamesSub, Games>>) }

InitRescanAll ==
    /\ entries = <<>>
    /\ nextKey = 1
    /\ files \in [Paths -> {0, 1}]
    /\ dirs \in SUBSET Dirs
    /\ OnDisk(dirs, files)
    /\ budget = MaxRequests
    /\ Still

NextRescanAll ==
    \/ \E target \in RescanTargets : ScanStart(1, target)
    \/ ScanExists(1)
    \/ ScanInsert(1)
    \/ ScanFinish(1)

SpecRescanAll == InitRescanAll /\ [][NextRescanAll]_vars

(* Scans of a tree four directories deep, from its top and from one level  *)
(* down                                                                    *)

DepthTargets ==
    { ScanDirectory(Games), ScanDirectory(GamesD1), RescanAll(<<Games, GamesD1>>) }

InitDepth ==
    /\ entries = <<>>
    /\ nextKey = 1
    /\ files \in [Paths -> {0, 1}]
    /\ budget = MaxRequests
    /\ Quiet

NextDepth ==
    \/ \E target \in DepthTargets : ScanStart(1, target)
    \/ ScanExists(1)
    \/ ScanInsert(1)
    \/ ScanFinish(1)

SpecDepth == InitDepth /\ [][NextDepth]_vars

---------------------------------------------------------------------------
(* The hash worker over a store that earlier runs left behind.             *)

\* the sources of the entries in the store, in key order
Stored == << Universe[1], Universe[2], Universe[4] >>

\* the digest pairs an entry is left with: never hashed (scanner), claimed
\* by a run that stopped (both 'processing'), hashed, or uploaded (sha256 only)
StoredDigests(content) ==
    { <<None, None>>,
      <<processing, processing>>,
      <<hexdigest("md5", content), hexdigest("sha256", content)>>,
      <<None, hexdigest("sha256", content)>> }

InitWorker ==
    /\ files \in { fs \in [Paths -> {0} \cup Contents] :
                      \A p \in Paths : fs[p] # 0 => \E k \in DOMAIN Stored : Stored[k] = p }
    /\ \E ds \in [DOMAIN Stored -> StoredDigests(1)] :
          entries = [k \in DOMAIN Stored |->
                        [scan_entry_data(Stored[k]) EXCEPT !.md5_hash = ds[k][1],
                                                           !.sha256_hash = ds[k][2]]]
    /\ nextKey = Len(Stored) + 1
    /\ budget = MaxVanish
    /\ Quiet

\* both coroutines of startup(), hashing quickly, over a disk that loses files
NextWorker ==
    \/ \E t \in Tasks : SweepWake(t)
    \/ \E t \in Tasks : SweepQuery(t)
    \/ \E t \in Tasks : SweepRelease(t)
    \/ \E t \in Tasks : SweepClaim(t, HashQuick)
    \/ \E t \in Tasks : SweepHashed(t)
    \/ \E t \in Tasks : SweepPersist(t)
    \/ \E t \in Tasks : SweepPause(t)
    \/ \E t \in Tasks : SweepCleanup(t)
    \/ \E p \in Paths : FileVanishes(p)
    \/ Tick

SpecWorker == InitWorker /\ [][NextWorker]_vars

\* the same store with a url entry between two filepath entries
InitKinds ==
    /\ files \in { fs \in [Paths -> {0, 1}] :
                      \A p \in Paths : fs[p] # 0 => p \in {Stored[1], Stored[3]} }
    /\ \E ds \in [{1, 3} -> StoredDigests(1)] :
          entries = [k \in 1..3 |->
                        IF k = 2 THEN url_entry_data
                        ELSE [scan_entry_data(Stored[k]) EXCEPT !.md5_hash = ds[k][1],
                                                                !.sha256_hash = ds[k][2]]]
    /\ nextKey = 4
    /\ budget = MaxVanish
    /\ Quiet

SpecKinds == InitKinds /\ [][NextWorker]_vars

(* The initial sweep over entries that are flagged and reported, while a   *)
(* user reports another.                                                   *)

InitTracked ==
    /\ files \in { fs \in [Paths -> {0, 1}] :
                      \A p \in Paths : fs[p] # 0 => p \in {Stored[1], Stored[3]} }
    /\ \E ds \in [{1, 3} -> {<<None, None>>, <<processing, processing>>}],
          flags \in [{1, 3} -> {"null", "true"}] :
          entries = [k \in 1..3 |->
                        IF k = 2 THEN url_entry_data
                        ELSE [scan_entry_data(Stored[k]) EXCEPT !.md5_hash = ds[k][1],
                                                                !.sha256_hash = ds[k][2],
                                                                !.corrupt = flags[k]]]
    /\ nextKey = 4
    /\ budget = MaxRequests
    /\ scan = [r \in ScanReqs |-> IdleScan]
    /\ lastScan = NoScan
    /\ upload = IdleUpload
    /\ sweep = StartedSweeps
    /\ hashReq = IdleHashReq
    /\ now = 0
    /\ app = "running"
    /\ reports = <<report_data(1, "corrupted")>>
    /\ nextReport = 2
    /\ report = [r \in Submits |-> IdleSubmit]
    /\ activity = <<>>
    /\ modResp = IdleMod
    /\ dirs = Dirs
    /\ directories = Registered
    /\ addDir = [r \in AddReqs |-> IdleAdd]
    /\ uploads = <<>>

NextTracked ==
    \/ SweepWake("initial")
    \/ SweepQuery("initial")
    \/ SweepRelease("initial")
    \/ SweepClaim("initial", HashQuick)
    \/ SweepHashed("initial")
    \/ SweepPersist("initial")
    \/ SweepPause("initial")
    \/ SweepCleanup("initial")
    \/ \E p \in Paths : FileVanishes(p)
    \/ Tick
    \/ \E entry_id \in {1, 3} : SubmitReport(1, entry_id, "corrupted")
    \/ SubmitGet(1)
    \/ SubmitCreate(1)
    \/ SubmitFlag(1)
    \/ SubmitLog(1)
    \/ SubmitDone(1)

SpecTracked == InitTracked /\ [][NextTracked]_vars

\* both coroutines with hashing of any duration, read errors and a shutdown,
\* over a disk nobody touches
NextSched ==
    \/ \E t \in Tasks : SweepWake(t)
    \/ \E t \in Tasks : SweepQuery(t)
    \/ \E t \in Tasks : SweepRelease(t)
    \/ \E t \in Tasks, d \in HashDurations : SweepClaim(t, d)
    \/ \E t \in Tasks : SweepHashed(t)
    \/ \E t \in Tasks : SweepHashFails(t)
    \/ \E t \in Tasks : SweepPersist(t)
    \/ \E t \in Tasks : SweepPause(t)
    \/ \E t \in Tasks : SweepCleanup(t)
    \/ ShutdownBegin
    \/ \E applied \in BOOLEAN : SweepCancelled(applied)
    \/ \E applied \in BOOLEAN : ShutdownEnd(applied)
    \/ Tick

\* a store no sweep has completed on, over files of one content
InitSched ==
    /\ InitWorker
    /\ \A p \in Paths : files[p] \in {0, 1}
    /\ \A k \in DOMAIN entries : entries[k].sha256_hash.kind # "hex"

SpecSched == InitSched /\ [][NextSched]_vars

\* both coroutines of startup(), hashing quickly, with read errors and a
\* store that rejects writes, over a disk nobody touches
NextWorkerFaults ==
    \/ \E t \in Tasks : SweepWake(t)
    \/ \E t \in Tasks : SweepQuery(t)
    \/ \E t \in Tasks : SweepRelease(t)
    \/ \E t \in Tasks : SweepClaim(t, HashQuick)
    \/ \E t \in Tasks : SweepClaimRejected(t, HashQuick)
    \/ \E t \in Tasks : SweepHashed(t)
    \/ \E t \in Tasks : SweepHashFails(t)
    \/ \E t \in Tasks : SweepPersist(t)
    \/ \E t \in Tasks : SweepPersistRejected(t)
    \/ \E t \in Tasks : SweepPause(t)
    \/ \E t \in Tasks : SweepCleanup(t)
    \/ Tick

SpecWorkerFaults == InitSched /\ [][NextWorkerFaults]_vars

(* The hash worker as long as the process runs: both coroutines, a scan    *)
(* that registers a file while they run, files that stay on disk, reads    *)
(* and queries that fail for a while.  The event loop runs every coroutine *)
(* that is ready and fires every timer, hence the weak fairness of the     *)
(* steps of the program; nothing obliges a fault or a request to happen.   *)

\* the clock still holds a whole sweep after the next sleep
Retriable ==
    now + SweepInterval + MaxKey * (HashQuick + ItemDelay) <= MaxTime

\* two entries never hashed or left claimed, a third file not yet registered
InitLive ==
    /\ files = [p \in Paths |-> IF p \in {Stored[1], Stored[2], Stored[3]} THEN 1 ELSE 0]
    /\ \E ds \in [{1, 2} -> {<<None, None>>, <<processing, processing>>}] :
          entries = [k \in {1, 2} |->
                        [scan_entry_data(Stored[k]) EXCEPT !.md5_hash = ds[k][1],
                                                           !.sha256_hash = ds[k][2]]]
    /\ nextKey = 3
    /\ budget = MaxRequests
    /\ Quiet

\* the steps the event loop takes by itself
LiveProgram ==
    \/ \E t \in Tasks : SweepWake(t)
    \/ \E t \in Tasks : SweepQuery(t)
    \/ \E t \in Tasks : SweepClaim(t, HashQuick)
    \/ \E t \in Tasks : SweepHashed(t)
    \/ \E t \in Tasks : SweepPersist(t)
    \/ \E t \in Tasks : SweepPause(t)
    \/ \E t \in Tasks : SweepCleanup(t)
    \/ ScanExists(1)
    \/ ScanInsert(1)
    \/ ScanFinish(1)
    \/ Tick

\* a request of the administrator, and the faults that pass
LiveEnvironment ==
    \/ ScanStart(1, ScanDirectory(GamesSub))
    \/ \E t \in Tasks : Retriable /\ SweepHashFails(t)
    \/ \E t \in Tasks : Retriable /\ SweepQueryRejected(t)

NextLive == LiveProgram \/ LiveEnvironment

SpecLive == InitLive /\ [][NextLive]_vars /\ WF_vars(LiveProgram)

---------------------------------------------------------------------------
(* Every writer of a digest field: a scan, an upload, an on-demand request *)
(* and the sweep of run_initial_hash_computation, over a disk that loses   *)
(* files and reads that fail, up to the first periodic sweep.              *)

\* a scanned entry never hashed and an entry a stopped run left claimed,
\* whose file is gone since
InitDigest ==
    /\ entries = << scan_entry_data(Universe[2]),
                    [scan_entry_data(Universe[4]) EXCEPT !.md5_hash = processing,
                                                         !.sha256_hash = processing] >>
    /\ nextKey = 3
    /\ files = [p \in Paths |-> IF p = Universe[2] THEN MaxContent ELSE 0]
    /\ budget = MaxRequests
    /\ Quiet

NextDigest ==
    \/ ScanStart(1, ScanDirectory(Games))
    \/ ScanExists(1)
    \/ ScanInsert(1)
    \/ ScanFinish(1)
    \/ \E stem \in UploadStems, ext \in UploadExts : UploadWrite(stem, ext, 1)
    \/ UploadDupName
    \/ UploadSha256
    \/ UploadInsert
    \/ UploadSetHash
    \/ \E key \in {1, 2} : HashRequest(key)
    \/ HashGet
    \/ HashReqClaim
    \/ HashReqHashed
    \/ HashReqPersist
    \/ HashReqCleanup
    \/ SweepWake("initial")
    \/ SweepQuery("initial")
    \/ SweepRelease("initial")
    \/ SweepClaim("initial", HashQuick)
    \/ SweepHashed("initial")
    \/ SweepHashFails("initial")
    \/ SweepPersist("initial")
    \/ SweepPause("initial")
    \/ SweepCleanup("initial")
    \/ FileVanishes(Universe[2])
    \/ Tick

SpecDigest == InitDigest /\ [][NextDigest]_vars

(* On-demand requests alone, for every kind of entry and for none.         *)

\* a filepath entry left by a scan, a run or an upload, a url entry, a
\* filepath entry whose file may be gone; key 4 is no entry's
InitHashNow ==
    /\ files \in { fs \in [Paths -> {0} \cup Contents] :
                      /\ fs[Stored[1]] # 0
                      /\ \A p \in Paths : fs[p] # 0 => p \in {Stored[1], Stored[3]} }
    /\ \E ds \in [{1, 3} -> StoredDigests(1)] :
          entries = [k \in 1..3 |->
                        IF k = 2 THEN url_entry_data
                        ELSE [scan_entry_data(Stored[k]) EXCEPT !.md5_hash = ds[k][1],
                                                                !.sha256_hash = ds[k][2]]]
    /\ nextKey = 4
    /\ budget = MaxRequests
    /\ Quiet

NextHashNow ==
    \/ \E key \in 1..4 : HashRequest(key)
    \/ HashGet
    \/ HashReqClaim
    \/ HashReqHashed
    \/ HashReqPersist

SpecHashNow == InitHashNow /\ [][NextHashNow]_vars

---------------------------------------------------------------------------
(* Reports on the entries of a store, and a moderator clearing flags.      *)

InitReport ==
    /\ \E flags \in [DOMAIN Stored -> {"null", "true", "false"}] :
          entries = [k \in DOMAIN Stored |->
                        [scan_entry_data(Stored[k]) EXCEPT !.corrupt = flags[k]]]
    /\ nextKey = Len(Stored) + 1
    /\ files = [p \in Paths |-> 0]
    /\ budget = MaxRequests
    /\ Quiet

NextReport ==
    \/ \E r \in Submits, entry_id \in {0} \cup Keys, reason \in Reasons :
          SubmitReport(r, entry_id, reason)
    \/ \E r \in Submits : SubmitGet(r)
    \/ \E r \in Submits : SubmitCreate(r)
    \/ \E r \in Submits : SubmitFlag(r)
    \/ \E r \in Submits : SubmitLog(r)
    \/ \E r \in Submits : SubmitDone(r)
    \/ \E key \in Keys : MarkEntryValid(key)

SpecReport == InitReport /\ [][NextReport]_vars

(* Report submission over a store that rejects writes *)

NextReportFaults ==
    \/ \E r \in Submits, entry_id \in {0} \cup Keys, reason \in Reasons :
          SubmitReport(r, entry_id, reason)
    \/ \E r \in Submits : SubmitGet(r)
    \/ \E r \in Submits : SubmitCreate(r)
    \/ \E r \in Submits : SubmitCreateFails(r)
    \/ \E r \in Submits : SubmitFlag(r)
    \/ \E r \in Submits : SubmitFlagFails(r)
    \/ \E r \in Submits : SubmitLog(r)
    \/ \E r \in Submits : SubmitDone(r)

SpecReportFaults == InitReport /\ [][NextReportFaults]_vars

(* Moderators at work on a store that holds flagged entries and reports *)

\* the sources of the entries of that store, in key order
ModStored == << Universe[4], Universe[2], Universe[1] >>

\* two reports filed earlier, on any of the entries, open or resolved
InitModerate ==
    /\ \E flags \in [DOMAIN ModStored -> {"null", "true", "false"}] :
          entries = [k \in DOMAIN ModStored |->
                        [scan_entry_data(ModStored[k]) EXCEPT !.corrupt = flags[k]]]
    /\ nextKey = Len(ModStored) + 1
    /\ files = [p \in Paths |-> 0]
    /\ budget = MaxRequests
    /\ scan = [r \in ScanReqs |-> IdleScan]
    /\ lastScan = NoScan
    /\ upload = IdleUpload
    /\ sweep = StartedSweeps
    /\ hashReq = IdleHashReq
    /\ now = 0
    /\ app = "running"
    /\ \E on \in [1..2 -> DOMAIN ModStored], resolved \in [1..2 -> BOOLEAN] :
          reports = [id \in 1..2 |->
                        IF resolved[id]
                        THEN [report_data(on[id], "corrupted") EXCEPT
                                  !.status = "resolved", !.resolved_at = "utcnow",
                                  !.resolved_by = "moderator"]
                        ELSE report_data(on[id], "corrupted")]
    /\ nextReport = 3
    /\ report = [r \in Submits |-> IdleSubmit]
    /\ activity = <<>>
    /\ modResp = IdleMod
    /\ dirs = Dirs
    /\ directories = Registered
    /\ addDir = [r \in AddReqs |-> IdleAdd]
    /\ uploads = <<>>

NextModerate ==
    \/ \E entry_id \in Keys : SubmitReport(1, entry_id, "corrupted")
    \/ SubmitGet(1)
    \/ SubmitCreate(1)
    \/ SubmitFlag(1)
    \/ SubmitLog(1)
    \/ SubmitDone(1)
    \/ \E key \in {0} \cup Keys : MarkEntryValid(key)
    \/ \E report_id \in ReportKeys \cup {MaxReports + 1} : ResolveReport(report_id)
    \/ ClearAllCorruptFlags
    \/ ListCorruptEntries

SpecModerate == InitModerate /\ [][NextModerate]_vars


(* Uploads into an empty store while both coroutines of startup() sweep,  *)
(* hashing quickly, over a disk that loses files and reads that fail.      *)

InitUploaded ==
    /\ entries = <<>>
    /\ nextKey = 1
    /\ files = [p \in Paths |-> 0]
    /\ budget = MaxRequests + MaxVanish
    /\ Quiet

NextUploaded ==
    \/ \E stem \in UploadStems, ext \in UploadExts, content \in Contents :
          UploadWrite(stem, ext, content)
    \/ UploadDupName
    \/ UploadSha256
    \/ UploadInsert
    \/ UploadSetHash
    \/ \E t \in Tasks : SweepWake(t)
    \/ \E t \in Tasks : SweepQuery(t)
    \/ \E t \in Tasks : SweepRelease(t)
    \/ \E t \in Tasks : SweepClaim(t, HashQuick)
    \/ \E t \in Tasks : SweepHashed(t)
    \/ \E t \in Tasks : SweepHashFails(t)
    \/ \E t \in Tasks : SweepPersist(t)
    \/ \E t \in Tasks : SweepPause(t)
    \/ \E t \in Tasks : SweepCleanup(t)
    \/ \E p \in Paths : FileVanishes(p)
    \/ Tick

SpecUploaded == InitUploaded /\ [][NextUploaded]_vars

(* The initial sweep over a store whose entries are deleted, one at a     *)
(* time or all at once, while it works through its list.                   *)

\* three entries never hashed or left claimed, any of their files on disk
InitDeleted ==
    /\ files \in { fs \in [Paths -> {0, 1}] :
                      \A p \in Paths : fs[p] # 0 => \E k \in DOMAIN Stored : Stored[k] = p }
    /\ \E ds \in [DOMAIN Stored -> {<<None, None>>, <<processing, processing>>}] :
          entries = [k \in DOMAIN Stored |->
                        [scan_entry_data(Stored[k]) EXCEPT !.md5_hash = ds[k][1],
                                                           !.sha256_hash = ds[k][2]]]
    /\ nextKey = Len(Stored) + 1
    /\ budget = MaxRequests
    /\ Quiet

NextDeleted ==
    \/ \E key \in Keys : DeleteEntry(key)
    \/ ClearEntries
    \/ SweepWake("initial")
    \/ SweepQuery("initial")
    \/ SweepRelease("initial")
    \/ SweepClaim("initial", HashQuick)
    \/ SweepHashed("initial")
    \/ SweepHashFails("initial")
    \/ SweepPersist("initial")
    \/ SweepPause("initial")
    \/ SweepCleanup("initial")
    \/ Tick

SpecDeleted == InitDeleted /\ [][NextDeleted]_vars

(* Users listing the entries while one of them is reported and a         *)
(* moderator marks entries valid.                                          *)

\* the entries of the moderators' store: the first reported once, flagged
\* or marked valid since, the others never flagged or stored with
\* corrupt = false
InitListing ==
    /\ \E flags \in [DOMAIN ModStored -> {"null", "true", "false"}] :
          /\ flags[1] # "null"
          /\ \A k \in DOMAIN ModStored \ {1} : flags[k] # "true"
          /\ entries = [k \in DOMAIN ModStored |->
                          [scan_entry_data(ModStored[k]) EXCEPT !.corrupt = flags[k]]]
    /\ nextKey = Len(ModStored) + 1
    /\ files = [p \in Paths |-> 0]
    /\ budget = 2 * MaxRequests
    /\ scan = [r \in ScanReqs |-> IdleScan]
    /\ lastScan = NoScan
    /\ upload = IdleUpload
    /\ sweep = StartedSweeps
    /\ hashReq = IdleHashReq
    /\ now = 0
    /\ app = "running"
    /\ reports = <<report_data(1, "corrupted")>>
    /\ nextReport = 2
    /\ report = [r \in Submits |-> IdleSubmit]
    /\ activity = <<>>
    /\ modResp = IdleMod
    /\ dirs = Dirs
    /\ directories = Registered
    /\ addDir = [r \in AddReqs |-> IdleAdd]
    /\ uploads = <<>>

NextListing ==
    \/ \E entry_id \in Keys : SubmitReport(1, entry_id, "corrupted")
    \/ SubmitGet(1)
    \/ SubmitCreate(1)
    \/ SubmitFlag(1)
    \/ SubmitLog(1)
    \/ SubmitDone(1)
    \/ \E key \in {0} \cup Keys : MarkEntryValid(key)
    \/ list_entries

SpecListing == InitListing /\ [][NextListing]_vars

(* Administrators registering directories *)

\* nothing under way, no entries; the collection holds none, one or two
\* of the directories, and games/d1 may be missing from the disk
InitDirs ==
    /\ entries = <<>>
    /\ nextKey = 1
    /\ files = [p \in Paths |-> 0]
    /\ budget = MaxRequests
    /\ scan = [r \in ScanReqs |-> IdleScan]
    /\ lastScan = NoScan
    /\ upload = IdleUpload
    /\ sweep = StartedSweeps
    /\ hashReq = IdleHashReq
    /\ now = 0
    /\ app = "running"
    /\ reports = <<>>
    /\ nextReport = 1
    /\ report = [r \in Submits |-> IdleSubmit]
    /\ activity = <<>>
    /\ modResp = IdleMod
    /\ dirs \in { Dirs, Dirs \ {GamesD1} }
    /\ directories \in { SubSeq(Registered, 1, n) : n \in 0..Len(Registered) }
    /\ addDir = [r \in AddReqs |-> IdleAdd]
    /\ uploads = <<>>

NextDirs ==
    \/ \E r \in AddReqs, directory_path \in Dirs : AddDirectory(r, directory_path)
    \/ \E r \in AddReqs : AddCheck(r)
    \/ \E r \in AddReqs : AddInsert(r)
    \/ \E r \in AddReqs : AddDone(r)

SpecDirs == InitDirs /\ [][NextDirs]_vars

---------------------------------------------------------------------------
(* Claims *)

\* C1: in every reachable state, whatever the interleaving of scans, rescans
\* and uploads, no two entries of the store have the same source.
SourceUnique ==
    \A j, k \in DOMAIN entries : j # k => entries[j].source # entries[k].source

\* the candidate files under a list of directories, each counted once per
\* directory that reaches it
RECURSIVE NumCandidates(_, _)
NumCandidates(fs, roots) ==
    IF roots = <<>> THEN 0
    ELSE Cardinality({ p \in Paths : /\ fs[p] # 0
                                     /\ IsPrefix(Head(roots), p.dirs)
                                     /\ Len(p.dirs) - Len(Head(roots)) <= max_depth
                                     /\ lower(p.ext) \in {"nsp", "nsz", "xci"} })
         + NumCandidates(fs, Tail(roots))

SecondPass(r) == scan[r].pc = "done" /\ scan[r].prev.roots = scan[r].asked

\* C2: a scan of the directories the previous scan covered, with no change
\* of the disk in between, answers added = 0 and skipped = the number of
\* candidate files, and leaves the entries as the first pass left them.
RescanIdempotent ==
    \A r \in ScanReqs :
        SecondPass(r) =>
            /\ scan[r].added = 0
            /\ scan[r].skipped = NumCandidates(files, scan[r].asked)
            /\ entries = scan[r].prev.ents

RescanIdempotentWitness ==
    \E r \in ScanReqs :
        /\ SecondPass(r)
        /\ scan[r].prev.added >= 2
        /\ scan[r].skipped >= 2

\* absent, the sentinel, or a hexadecimal digest of the algorithm's length
WellFormed(v, algorithm) ==
    \/ v = None
    \/ v = processing
    \/ /\ v.kind = "hex"
       /\ v.len = (IF algorithm = "md5" THEN 32 ELSE 64)

\* C3: in every reachable state each digest field of every entry is absent,
\* the sentinel 'processing', or a hex digest of the right length (32 for
\* md5, 64 for sha256), whichever of scan, upload, sweep, on-demand hashing
\* and failure handling wrote last.
DigestsWellFormed ==
    \A k \in DOMAIN entries :
        /\ WellFormed(entries[k].md5_hash, "md5")
        /\ WellFormed(entries[k].sha256_hash, "sha256")

\* every kind of value is in the store at once: a digest written by a sweep
\* or a request, an upload's sha256 beside an absent md5, and a sentinel
DigestsWellFormedWitness ==
    /\ \E k \in DOMAIN entries :
          entries[k].md5_hash.kind = "hex" /\ entries[k].sha256_hash.kind = "hex"
    /\ \E k \in DOMAIN entries :
          entries[k].md5_hash = None /\ entries[k].sha256_hash.kind = "hex"
    /\ \E k \in DOMAIN entries : entries[k].md5_hash = processing

\* the step in which a sweep reads its selection
QueryStep(t) ==
    /\ sweep[t].pc = "query"
    /\ sweep'[t].pc # "query"
    /\ sweep'[t].at = ""

\* a sweep has gone through its whole selection
SweepComplete(t) ==
    /\ sweep[t].pc \in {"sleep", "done"}
    /\ sweep[t].at = ""
    /\ sweep[t].entries_to_process # <<>>

\* a coroutine is between the start of a sweep and its end
InFlight(t) ==
    sweep[t].pc \in {"query", "release", "claim", "hash", "persist", "pause", "cleanup"}

\* the step in which a sweep leaves its last item
CompletionStep(t) ==
    /\ InFlight(t)
    /\ sweep'[t].pc \in {"sleep", "done"}
    /\ sweep'[t].at = ""
    /\ sweep'[t].entries_to_process # <<>>

BothSentinel(doc) ==
    doc.type = "filepath" /\ doc.md5_hash = processing /\ doc.sha256_hash = processing

Selected(task, k) ==
    \E j \in DOMAIN task.entries_to_process : task.entries_to_process[j].key = k

\* the entry holds the two digests of what the file holds
HoldsDigestsOf(ents, fs, k, source) ==
    /\ ents[k].md5_hash = hexdigest("md5", fs[source])
    /\ ents[k].sha256_hash = hexdigest("sha256", fs[source])

\* C4: a filepath entry whose md5 and sha256 are both the sentinel is selected
\* by the next sweep, and when that sweep completes without error the entry,
\* if its file exists, holds the two hex digests of the file.
SentinelRecovered ==
    [][\A t \in Tasks :
          /\ QueryStep(t) =>
                \A k \in DOMAIN entries :
                    BothSentinel(entries[k]) => Selected(sweep'[t], k)
          /\ CompletionStep(t) /\ sweep'[t].errors = 0 =>
                \A j \in DOMAIN sweep'[t].entries_to_process :
                    LET item == sweep'[t].entries_to_process[j]
                    IN  /\ item.md5_hash = processing
                        /\ item.sha256_hash = processing
                        /\ isfile(files', item.source)
                        => HoldsDigestsOf(entries', files', item.key, item.source)]_vars

\* C5: when a sweep reaches an entry whose file does not exist and whose
\* snapshot holds the sentinel in a digest field, the release it performs
\* leaves both digest fields of the entry absent.
ReleaseClears ==
    [][\A t \in Tasks :
          sweep[t].pc = "release" /\ sweep'[t] # sweep[t] =>
              LET k == Current(sweep[t]).key
              IN  /\ entries'[k].md5_hash = None
                  /\ entries'[k].sha256_hash = None]_vars

\* C6: when a sweep completes without error, with no other writer at
\* work, every selected entry whose file exists holds md5 = MD5(file) and
\* sha256 = SHA256(file), and neither field is the sentinel.
SweepCorrect ==
    [][\A t \in Tasks :
          CompletionStep(t) /\ sweep'[t].errors = 0 =>
              \A j \in DOMAIN sweep'[t].entries_to_process :
                  LET item == sweep'[t].entries_to_process[j]
                  IN  isfile(files', item.source) =>
                          /\ HoldsDigestsOf(entries', files', item.key, item.source)
                          /\ entries'[item.key].md5_hash # processing
                          /\ entries'[item.key].sha256_hash # processing]_vars

\* a sweep has hashed two files of different content, one of them an upload
\* that had its sha256 only
SweepCorrectWitness ==
    \E t \in Tasks :
        /\ SweepComplete(t)
        /\ sweep[t].errors = 0
        /\ \E i, j \in DOMAIN sweep[t].entries_to_process :
              LET a == sweep[t].entries_to_process[i]
                  b == sweep[t].entries_to_process[j]
              IN  /\ isfile(files, a.source)
                  /\ isfile(files, b.source)
                  /\ files[a.source] # files[b.source]
                  /\ a.md5_hash = None
                  /\ a.sha256_hash.kind = "hex"
                  /\ entries[a.key].md5_hash.kind = "hex"
                  /\ entries[b.key].md5_hash.kind = "hex"

AllHashed(ents) ==
    \A k \in DOMAIN ents :
        ents[k].type = "filepath" =>
            ents[k].md5_hash.kind = "hex" /\ ents[k].sha256_hash.kind = "hex"

\* C7: a sweep over a store in which every filepath entry has two hex
\* digests selects nothing and writes nothing: it ends in the step that
\* reads the selection, with the store as it was.
HashedStoreNoOp ==
    [][\A t \in Tasks :
          QueryStep(t) /\ AllHashed(entries) =>
              /\ sweep'[t].entries_to_process = <<>>
              /\ sweep'[t].pc \in {"sleep", "done"}
              /\ entries' = entries]_vars

\* the periodic sweep of minute ten has found nothing to do in a store whose
\* entries are all hashed
HashedStoreNoOpWitness ==
    /\ AllHashed(entries)
    /\ entries # <<>>
    /\ sweep["periodic"].pc = "sleep"
    /\ sweep["periodic"].wake = 2 * SweepInterval
    /\ sweep["periodic"].entries_to_process = <<>>

\* C8: the initial sweep and the periodic sweep are never in flight at once.
SweepsNeverOverlap == ~(InFlight("initial") /\ InFlight("periodic"))

\* C9: once shutdown has finished, no entry holds the sentinel because a
\* coroutine was stopped between its claim write and its persist write.
ShutdownCompletesItem ==
    app = "stopped" =>
        \A t \in Tasks :
            sweep[t].at \in {"hash", "persist"} =>
                LET k == Current(sweep[t]).key
                IN  /\ entries[k].md5_hash # processing
                    /\ entries[k].sha256_hash # processing

\* the reports of the store that are open on an entry
OpenReports(reps, k) ==
    { id \in DOMAIN reps : reps[id].entry_id = k /\ reps[id].status = "open" }

\* C10: a submit_report for an existing entry E adds exactly one report,
\* open and naming E, and changes no other report and no entry; its flag
\* write leaves E.corrupt true whatever it was, and changes no other field
\* of E, no other entry and no report.
SubmitReportEffect ==
    [][\A r \in Submits :
          /\ report[r].pc = "create" /\ report'[r].pc = "flag" =>
                /\ \E id \in DOMAIN reports' \ DOMAIN reports :
                      /\ DOMAIN reports' = DOMAIN reports \cup {id}
                      /\ reports'[id].entry_id = report[r].entry_id
                      /\ reports'[id].status = "open"
                /\ \A id \in DOMAIN reports : reports'[id] = reports[id]
                /\ entries' = entries
          /\ report[r].pc = "flag" /\ report'[r].pc = "log" =>
                /\ DOMAIN entries' = DOMAIN entries
                /\ entries'[report[r].entry_id].corrupt = "true"
                /\ \A k \in DOMAIN entries :
                      entries'[k] = IF k = report[r].entry_id
                                    THEN [entries[k] EXCEPT !.corrupt = "true"]
                                    ELSE entries[k]
                /\ reports' = reports]_vars

\* a second report on an entry that was flagged, cleared by a moderator or
\* never flagged has gone through, beside the first one still open
SubmitReportEffectWitness ==
    \E r \in Submits :
        /\ report[r].pc = "done"
        /\ report[r].status = 200
        /\ entries[report[r].entry_id].corrupt = "true"
        /\ Cardinality(OpenReports(reports, report[r].entry_id)) >= 2

\* C11: a submit_report whose entry id or reason is missing is answered 400,
\* one whose entry id names no entry is answered 404, and no step of such a
\* request inserts a report, changes a corrupt flag or any entry, or writes
\* an activity-log record.
RejectedUntouched ==
    [][\A r \in Submits :
          /\ report[r].pc = "idle" /\ report'[r].pc # "idle" =>
                ((report'[r].entry_id = 0 \/ report'[r].reason = "")
                    <=> (report'[r].pc = "done" /\ report'[r].status = 400))
          /\ report[r].pc = "get" /\ report'[r].pc # "get" =>
                ((report[r].entry_id \notin DOMAIN entries)
                    <=> (report'[r].pc = "done" /\ report'[r].status = 404))
          /\ report[r].pc \in {"idle", "get"} /\ report'[r] # report[r] =>
                /\ reports' = reports
                /\ nextReport' = nextReport
                /\ entries' = entries
                /\ activity' = activity]_vars

\* one request was answered 400 and another 404, in a store that holds
\* entries
RejectedUntouchedWitness ==
    /\ entries # <<>>
    /\ \E r \in Submits : report[r].pc = "done" /\ report[r].status = 400
    /\ \E r \in Submits :
          /\ report[r].pc = "done"
          /\ report[r].status = 404
          /\ report[r].entry_id \notin DOMAIN entries

\* C12: whenever submit_report answers success for an entry E, nobody else
\* writing E's flag, the report it created is in the store, open and naming
\* E, and E.corrupt is true; a request one of whose two store writes was
\* rejected is therefore never answered success.
SuccessMeansApplied ==
    \A r \in Submits :
        report[r].pc = "done" /\ report[r].status = 200 =>
            /\ report[r].report_id \in DOMAIN reports
            /\ reports[report[r].report_id].entry_id = report[r].entry_id
            /\ reports[report[r].report_id].status = "open"
            /\ entries[report[r].entry_id].corrupt = "true"

\* a step in which a moderator's request of the given kind is answered
Answered(op) == modResp'.n = modResp.n + 1 /\ modResp'.op = op

\* C13: resolve_report changes no entry, so no corrupt flag, whatever the
\* report and its entry were; mark_entry_valid changes no report, open or
\* resolved, and inserts none.
ModerationIndependent ==
    [][/\ Answered("resolve_report") => entries' = entries
       /\ Answered("mark_valid") => reports' = reports /\ nextReport' = nextReport]_vars

\* a report was resolved and its entry is still flagged, after an entry with
\* an open report was marked valid and its report is still open
ModerationIndependentWitness ==
    /\ modResp.op = "resolve_report"
    /\ modResp.status = 200
    /\ \E id \in DOMAIN reports :
          /\ reports[id].status = "resolved"
          /\ entries[reports[id].entry_id].corrupt = "true"
    /\ \E i \in DOMAIN activity :
          /\ activity[i].event_type = "entry_marked_valid"
          /\ entries[activity[i].entry_id].corrupt = "false"
          /\ OpenReports(reports, activity[i].entry_id) # {}

\* C14: clear_all_corrupt_flags leaves corrupt = false on every entry that
\* was corrupt and changes nothing else, answers the number of entries it
\* changed, and called again on the store it leaves answers 0.
ClearAllEffect ==
    [][Answered("clear_all") =>
          /\ DOMAIN entries' = DOMAIN entries
          /\ \A k \in DOMAIN entries :
                entries'[k] = IF entries[k].corrupt = "true"
                              THEN [entries[k] EXCEPT !.corrupt = "false"]
                              ELSE entries[k]
          /\ modResp'.count = Cardinality({ k \in DOMAIN entries : entries'[k] # entries[k] })
          /\ clear_all_corrupt_flags(entries').count = 0
          /\ clear_all_corrupt_flags(entries').entries = entries']_vars

\* two clear-alls in a row: the first cleared two entries or more, the
\* second answered 0
ClearAllEffectWitness ==
    /\ Len(activity) = 2
    /\ activity[1].event_type = "clear_all_corrupt_flags"
    /\ activity[1].entries_cleared >= 2
    /\ activity[2].event_type = "clear_all_corrupt_flags"
    /\ activity[2].entries_cleared = 0
    /\ modResp.op = "clear_all"
    /\ modResp.count = 0

\* C15: the listing of corrupt entries holds exactly the entries whose
\* corrupt is true, each once, in ascending order of name; each carries its
\* open reports and report_count = their number, and no resolved report and
\* no report on another entry is among them.
ListingExact ==
    [][Answered("list") =>
        LET listing == modResp'.listing
        IN  /\ { listing[i].key : i \in DOMAIN listing }
                 = { k \in DOMAIN entries : entries[k].corrupt = "true" }
            /\ \A i, j \in DOMAIN listing :
                  i < j => /\ listing[i].key # listing[j].key
                           /\ name_rank(listing[i].name) <= name_rank(listing[j].name)
            /\ \A i \in DOMAIN listing :
                  /\ listing[i].name = entries[listing[i].key].name
                  /\ { listing[i].open_reports[j] : j \in DOMAIN listing[i].open_reports }
                       = OpenReports(reports, listing[i].key)
                  /\ listing[i].report_count = Cardinality(OpenReports(reports, listing[i].key))]_vars

\* the listing names two corrupt entries that the store holds in the other
\* order, one with two open reports; a third entry, not corrupt, has none
ListingExactWitness ==
    /\ modResp.op = "list"
    /\ Len(modResp.listing) = 2
    /\ modResp.listing[1].key > modResp.listing[2].key
    /\ \E i \in DOMAIN modResp.listing : modResp.listing[i].report_count = 2
    /\ \E id \in DOMAIN reports : reports[id].status = "resolved"

\* C16: when compute_hashes_now has read an entry that holds two hex
\* digests, it answers and starts no computation: the request ends there and
\* the entries are left as they were, so the digests stay and never become
\* the sentinel.
CachedDigestsKept ==
    [][/\ hashReq.pc = "get"
       /\ hashReq'.pc # "get"
       /\ hashReq.key \in DOMAIN entries
       /\ entries[hashReq.key].md5_hash.kind = "hex"
       /\ entries[hashReq.key].sha256_hash.kind = "hex"
       => /\ hashReq'.pc = "idle"
          /\ entries' = entries]_vars

\* C17: when a sweep in which an entry failed (its read raised, or the
\* store rejected the write of its digests) leaves its last item, every
\* other entry of the selection whose file exists holds the two hex digests
\* of its file: the failure did not end the sweep.
FailureIsolated ==
    [][\A t \in Tasks :
          CompletionStep(t) /\ sweep'[t].failed # {} =>
              \A j \in DOMAIN sweep'[t].entries_to_process :
                  LET item == sweep'[t].entries_to_process[j]
                  IN  item.key \notin sweep'[t].failed /\ isfile(files', item.source) =>
                          HoldsDigestsOf(entries', files', item.key, item.source)]_vars

\* what a scan has counted so far: the sums of the directories done and
\* the counters of the one under way
Added(req) == req.added + req.added_count
Skipped(req) == req.skipped + req.skipped_count

\* the candidates a scan has still to examine
Remaining(req) == Len(req.cand) + NumCandidates(files, req.roots)

\* C18: in a scan some of whose files cannot be read or inserted, every step
\* that is done with a candidate leaves all the remaining ones to examine,
\* and the scan answers only when none remains; skipped_count grows by one
\* exactly when the candidate's source is registered, added_count by one
\* exactly when an entry is inserted, so that the answer's added_count is
\* the number of entries the scan inserted.
ScanErrorIsolated ==
    [][\A r \in ScanReqs :
          LET req == scan[r]
              nxt == scan'[r]
          IN  /\ req.pc \in {"exists", "insert"} /\ nxt.pc # "insert" =>
                    /\ Remaining(nxt) = Remaining(req) - 1
                    /\ nxt.pc = "done" => Remaining(nxt) = 0
              /\ req.pc = "exists" /\ nxt # req =>
                    /\ Added(nxt) = Added(req)
                    /\ Skipped(nxt) = Skipped(req) +
                          (IF \E k \in DOMAIN entries : entries[k].source = Head(req.cand)
                           THEN 1 ELSE 0)
              /\ req.pc = "insert" /\ nxt # req =>
                    /\ Skipped(nxt) = Skipped(req)
                    /\ Added(nxt) = Added(req) + (Len(entries') - Len(entries))
              /\ nxt.pc = "done" => nxt.added = Len(entries') - Len(nxt.prev.ents)]_vars

\* a scan of games has answered: its first candidate is not registered, a
\* later one was inserted and another one was skipped as registered
ScanErrorIsolatedWitness ==
    /\ scan[1].pc = "done"
    /\ scan[1].asked = <<Games>>
    /\ isfile(files, Universe[1])
    /\ ~entry_exists(entries, Universe[1])
    /\ entry_exists(entries, Universe[4])
    /\ scan[1].added >= 1
    /\ scan[1].skipped >= 1

\* the first scan of a store that held nothing has answered
FirstPass(r) == scan[r].pc = "done" /\ scan[r].prev = NoScan

\* the files a scan of the directories registers: the regular files under
\* one of them whose extension is one of the three, in any case
Registrable(fs, roots) ==
    { p \in Paths : /\ fs[p] # 0
                    /\ \E i \in DOMAIN roots :
                          /\ IsPrefix(roots[i], p.dirs)
                          /\ Len(p.dirs) - Len(roots[i]) <= max_depth
                    /\ lower(p.ext) \in {"nsp", "nsz", "xci"} }

\* C19 as stated: every entry a scan registered is a file whose name ends
\* in .nsp, .nsz or .xci as written, and its format tag is that extension.
ExtensionExact ==
    \A k \in DOMAIN entries :
        /\ entries[k].source.ext \in {"nsp", "nsz", "xci"}
        /\ entries[k].file_type = entries[k].source.ext

\* C19: a scan registers a file only if its extension is nsp, nsz or xci in
\* any case, and the entry's format tag is the extension in lower case;
\* when the first scan of an empty store answers, exactly those files under
\* its directories are registered, once each, added_count is their number
\* and skipped_count the number of times a second directory reached one of
\* them again: a file of another extension is neither registered nor
\* counted.
ExtensionFilter ==
    /\ \A k \in DOMAIN entries :
          /\ lower(entries[k].source.ext) \in {"nsp", "nsz", "xci"}
          /\ entries[k].file_type = lower(entries[k].source.ext)
    /\ \A r \in ScanReqs :
          FirstPass(r) =>
              /\ { entries[k].source : k \in DOMAIN entries } = Registrable(files, scan[r].asked)
              /\ Len(entries) = Cardinality(Registrable(files, scan[r].asked))
              /\ scan[r].added = Cardinality(Registrable(files, scan[r].asked))
              /\ scan[r].added + scan[r].skipped = NumCandidates(files, scan[r].asked)

\* games holds a.nsp, b.txt and sub/c.XCI: both game files are registered,
\* c.XCI with the tag xci, b.txt is not, and nothing was skipped
ExtensionFilterWitness ==
    \E r \in ScanReqs :
        /\ FirstPass(r)
        /\ scan[r].asked = <<Games>>
        /\ isfile(files, Universe[1])
        /\ isfile(files, Universe[3])
        /\ isfile(files, Universe[4])
        /\ scan[r].added = 2
        /\ scan[r].skipped = 0
        /\ \E k \in DOMAIN entries :
              entries[k].source = Universe[4] /\ entries[k].file_type = "xci"

\* the level of a file's directory below a directory above it
LevelBelow(root, p) == Len(p.dirs) - Len(root)

\* C20: with the directory a scan is given at level 0, a candidate file is
\* registered if and only if its directory is at level max_depth or less:
\* when the first scan of an empty store answers, the entries are exactly
\* the game files at most max_depth levels below one of its directories,
\* and no file further down is registered.
DepthBounded ==
    \A r \in ScanReqs :
        FirstPass(r) =>
            \A p \in Paths :
                isfile(files, p) /\ lower(p.ext) \in {"nsp", "nsz", "xci"} =>
                    (entry_exists(entries, p)
                        <=> \E i \in DOMAIN scan[r].asked :
                                /\ IsPrefix(scan[r].asked[i], p.dirs)
                                /\ LevelBelow(scan[r].asked[i], p) <= max_depth)

\* a scan of games registered the file three levels down and not the one
\* four levels down
DepthBoundedWitness ==
    \E r \in ScanReqs :
        /\ FirstPass(r)
        /\ scan[r].asked = <<Games>>
        /\ isfile(files, Universe[5])
        /\ isfile(files, Universe[6])
        /\ entry_exists(entries, Universe[5])
        /\ ~entry_exists(entries, Universe[6])

\* the sum of the i-th components of a sequence of tuples
RECURSIVE SumOf(_, _)
SumOf(tuples, i) ==
    IF tuples = <<>> THEN 0 ELSE Head(tuples)[i] + SumOf(Tail(tuples), i)

\* the registered directories of a request that are on disk, in its order
OnDiskOf(req) == SelectSeq(req.asked, LAMBDA d : exists(dirs, d))

\* C21: when rescan_all answers, it answers 200; scan_directory_for_files has
\* run once for each registered directory that is on disk, in order, and
\* examined every candidate of it; the totals of the answer are the sums of
\* the (added, skipped) tuples the runs returned, and added is the number of
\* entries the request inserted: a directory that is gone contributes
\* nothing and fails nothing.
RescanAllTotals ==
    \A r \in ScanReqs :
        scan[r].pc = "done" /\ scan[r].handler = "admin_rescan_all" =>
            LET req == scan[r]
            IN  /\ req.status = 200
                /\ Len(req.results) = Len(OnDiskOf(req))
                /\ \A i \in 1..Len(req.results) :
                        req.results[i][1] + req.results[i][2] =
                            Len(walk_directory(files, OnDiskOf(req)[i]))
                /\ req.added = SumOf(req.results, 1)
                /\ req.skipped = SumOf(req.results, 2)
                /\ req.added = Len(entries) - Len(req.prev.ents)

\* rescan_all has answered for three registered directories of which one is
\* gone and two contributed
RescanAllTotalsWitness ==
    \E r \in ScanReqs :
        /\ scan[r].pc = "done" /\ scan[r].handler = "admin_rescan_all"
        /\ \E i \in 1..Len(scan[r].asked) : ~exists(dirs, scan[r].asked[i])
        /\ Len(scan[r].results) = 2
        /\ scan[r].results[1][1] >= 1
        /\ scan[r].results[2][1] >= 1
        /\ scan[r].skipped >= 1

\* the positions of a sweep between the query and the end of an item
SweepAtItem == {"release", "claim", "hash", "persist", "pause", "cleanup"}

\* C22: the list a sweep's query returns holds exactly the filepath entries
\* of which a digest is absent or is the sentinel; the entry a sweep stands
\* at is a filepath entry, and no step of a sweep changes a url entry.
SweepSelection ==
    [][/\ \A t \in Tasks :
            sweep[t].pc = "query" /\ sweep'[t] # sweep[t] =>
                { sweep'[t].entries_to_process[j].key :
                      j \in 1..Len(sweep'[t].entries_to_process) } =
                { k \in DOMAIN entries :
                      /\ entries[k].type = "filepath"
                      /\ \/ entries[k].md5_hash = None
                         \/ entries[k].sha256_hash = None
                         \/ entries[k].md5_hash = processing
                         \/ entries[k].sha256_hash = processing }
       /\ \A t \in Tasks :
            sweep'[t].pc \in SweepAtItem =>
                entries'[Current(sweep'[t]).key].type = "filepath"
       /\ \A k \in DOMAIN entries :
            entries[k].type = "url" => entries'[k] = entries[k]]_vars

\* both sweeps are over, having hashed a filepath entry on each side of a
\* url entry that holds no digest
SweepSelectionWitness ==
    /\ sweep["initial"].pc = "done"
    /\ sweep["periodic"].pc = "sleep" /\ sweep["periodic"].wake > SweepInterval
    /\ Len(sweep["initial"].entries_to_process) = 2
    /\ entries[2].type = "url"
    /\ entries[2].md5_hash = None /\ entries[2].sha256_hash = None
    /\ entries[1].md5_hash.kind = "hex" /\ entries[3].md5_hash.kind = "hex"

\* both digest fields of an entry hold the sentinel
Claimed(ents, key) ==
    ents[key].md5_hash = processing /\ ents[key].sha256_hash = processing

\* both digest fields of an entry hold a digest
Digested(ents, key) ==
    ents[key].md5_hash.kind = "hex" /\ ents[key].sha256_hash.kind = "hex"

\* C23: for a sweep and for an on-demand request alike, the claim write is
\* awaited only with the file seen on disk, the computation starts only in
\* the step that writes the claim, which leaves the sentinel in both fields
\* (what the query of a sweep selects), the persist write is awaited only
\* when the computation has returned, and the two digests reach the entry
\* only in a persist write (or in the write of an upload).
HashingOrder ==
       [][/\ \A t \in Tasks :
               LET old == sweep[t]
                   new == sweep'[t]
               IN  /\ new.pc = "claim" /\ new # old =>
                          isfile(files', Current(new).source)
                   /\ new.pc = "hash" /\ old.pc # "hash" =>
                          /\ old.pc = "claim"
                          /\ Claimed(entries', Current(new).key)
                          /\ NeedsAttention(entries'[Current(new).key])
                   /\ new.pc = "persist" /\ old.pc # "persist" => old.pc = "hash"
          /\ hashReq'.pc = "claim" /\ hashReq.pc # "claim" =>
                isfile(files', hashReq'.source)
          /\ hashReq'.pc = "hash" /\ hashReq.pc # "hash" =>
                /\ hashReq.pc = "claim"
                /\ Claimed(entries', hashReq'.key)
          /\ hashReq'.pc = "persist" /\ hashReq.pc # "persist" => hashReq.pc = "hash"
          /\ \A k \in DOMAIN entries :
                entries'[k] # entries[k] /\ Digested(entries', k) =>
                    \/ hashReq.pc = "persist" /\ hashReq.key = k
                    \/ \E t \in Tasks : sweep[t].pc = "persist" /\ Current(sweep[t]).key = k
                    \/ upload.pc # "idle" /\ upload.key = k]_vars

\* a sweep and an on-demand request are both computing, each with its
\* sentinel in place
HashingOrderWitness ==
    /\ sweep["initial"].pc = "hash"
    /\ hashReq.pc = "hash"
    /\ Claimed(entries, hashReq.key)
    /\ Claimed(entries, Current(sweep["initial"]).key)

\* C24: when the computation raises after the claim write, the except branch
\* of the sweep, and that of the on-demand task, leaves both digest fields
\* of the entry absent: the entry does not keep the sentinel.
FailureResets ==
    [][/\ \A t \in Tasks :
            sweep[t].pc = "cleanup" /\ sweep'[t] # sweep[t] =>
                LET k == Current(sweep[t]).key
                IN  /\ entries'[k].md5_hash = None
                    /\ entries'[k].sha256_hash = None
       /\ hashReq.pc = "cleanup" /\ hashReq' # hashReq =>
                /\ entries'[hashReq.key].md5_hash = None
                /\ entries'[hashReq.key].sha256_hash = None]_vars

\* the keys of the list a sweep works from
SelectedKeys(task) ==
    { task.entries_to_process[j].key : j \in 1..Len(task.entries_to_process) }

\* the entry is in the store and holds the two digests of its file
Hashed(k) ==
    /\ k \in DOMAIN entries
    /\ HoldsDigestsOf(entries, files, k, entries[k].source)

\* the reading of the entry's file has failed in the latest sweep of a task
ReadFailed(k) == \E t \in Tasks : k \in sweep[t].failed

\* the failure dates from the sweep before the periodic query now under
\* way: the previous periodic sweep, or the initial one when the periodic
\* coroutine is at its first query
FailedLastSweep(k) ==
    \/ k \in sweep["periodic"].failed
    \/ k \in sweep["initial"].failed /\ now < 2 * SweepInterval

\* C25: an entry whose file could not be read in a sweep is in the list the
\* next periodic query returns, with the digest fields as the failure left
\* them, and, the file being readable again, comes to hold its two digests.
RetryAfterFailure ==
    /\ [][sweep["periodic"].pc = "query" /\ sweep'["periodic"].pc # "query" /\
          sweep'["periodic"].aborted = sweep["periodic"].aborted =>
              \A k \in Keys : FailedLastSweep(k) => k \in SelectedKeys(sweep'["periodic"])]_vars
    /\ \A k \in Keys : ReadFailed(k) ~> Hashed(k)

\* the read of an entry's file failed in the initial sweep and in the first
\* periodic one, which left the sentinel, and the entry holds its digests
RetryAfterFailureWitness ==
    \E k \in DOMAIN entries :
        /\ k \in sweep["initial"].failed
        /\ sweep["periodic"].pc = "sleep"
        /\ sweep["periodic"].wake > 2 * SweepInterval
        /\ Hashed(k)

\* a filepath entry of which a digest is absent, its file on disk
LacksDigest(k) ==
    /\ k \in DOMAIN entries
    /\ entries[k].type = "filepath"
    /\ entries[k].md5_hash = None \/ entries[k].sha256_hash = None
    /\ isfile(files, entries[k].source)

\* C26: with the event loop running every ready coroutine and firing every
\* timer, a filepath entry that lacks a digest while a whole sweep is still
\* to come, be it registered by a scan during a sweep, comes to hold the two
\* digests of its file; the list of each query holds every such entry of
\* the store, and a sweep that ends without error has hashed every entry of
\* its list; a periodic sweep whose query is rejected goes back to its
\* sleep of SweepInterval seconds, after which the next query is sent.
EventuallyHashed ==
    /\ \A k \in Keys : (LacksDigest(k) /\ Retriable) ~> Hashed(k)
    /\ [][\A t \in Tasks :
            /\ sweep[t].pc = "query" /\ sweep'[t].pc # "query" /\
               sweep'[t].aborted = sweep[t].aborted =>
                    \A k \in Keys : LacksDigest(k) => k \in SelectedKeys(sweep'[t])
            /\ CompletionStep(t) /\ sweep'[t].errors = 0 =>
                    \A k \in SelectedKeys(sweep'[t]) : Hashed(k)'
            /\ sweep'[t].aborted > sweep[t].aborted /\ t = "periodic" =>
                    /\ sweep'[t].pc = "sleep"
                    /\ sweep'[t].wake = now + SweepInterval]_vars
    /\ (/\ sweep["periodic"].aborted > 0
        /\ sweep["periodic"].pc = "sleep"
        /\ sweep["periodic"].wake <= MaxTime) ~> (sweep["periodic"].pc = "query")

\* the entry a scan registered while the initial sweep was running holds
\* its digests after a periodic sweep, an earlier periodic query having
\* been rejected
EventuallyHashedWitness ==
    /\ sweep["initial"].pc = "done"
    /\ 3 \notin SelectedKeys(sweep["initial"])
    /\ sweep["initial"].entries_to_process # <<>>
    /\ sweep["periodic"].aborted > 0
    /\ Hashed(3)

\* C27: within a sweep the list is fixed and the loop stands at one entry;
\* it moves forward only, and only out of the pause after a persist write,
\* out of the failure handling or out of the release of a missing file,
\* passing over nothing but entries whose file is missing; the computation
\* starts on the entry the claim was written for, and every write of the
\* sweep is on the entry it stands at.
OneAtATime ==
    [][\A t \in Tasks :
          LET old == sweep[t]
              new == sweep'[t]
          IN  /\ old.pc \in SweepAtItem /\ new.pc \in SweepAtItem =>
                    /\ new.entries_to_process = old.entries_to_process
                    /\ new.i >= old.i
                    /\ new.i > old.i =>
                          /\ old.pc \in {"pause", "cleanup", "release"}
                          /\ \A j \in (old.i + 1)..(new.i - 1) :
                                ~isfile(files, old.entries_to_process[j].source)
                    /\ new.i = old.i /\ new.pc # old.pc =>
                          <<old.pc, new.pc>> \in
                              { <<"claim", "hash">>, <<"hash", "persist">>,
                                <<"hash", "cleanup">>, <<"persist", "pause">> }
              /\ old.pc \in SweepAtItem /\ new.pc \notin SweepAtItem =>
                    old.pc \in {"pause", "cleanup", "release"}
              /\ new # old =>
                    \A k \in DOMAIN entries :
                        entries'[k] # entries[k] =>
                            old.pc \in {"claim", "persist"} /\ Current(old).key = k]_vars

\* a sweep computes the digests of the third entry of its list, the first
\* two hashed and none other claimed
OneAtATimeWitness ==
    \E t \in Tasks :
        /\ sweep[t].pc = "hash" /\ sweep[t].i = 3
        /\ Claimed(entries, Current(sweep[t]).key)
        /\ \A j \in 1..2 : Digested(entries, sweep[t].entries_to_process[j].key)

\* C28: when compute_hashes_now has read a filepath entry of which a digest
\* is absent and whose file is on disk, it answers 200 "processing" and the
\* background task starts, which writes the claim, computes, and writes the
\* two digests of the file; for an unknown id, a url entry or an entry
\* whose file is missing it answers an error, starts nothing and leaves the
\* entries as they were.
HashNowEffect ==
    [][/\ hashReq.pc = "get" /\ hashReq'.pc # "get" =>
            LET k == hashReq.key
                known == k \in DOMAIN entries
                lacks == entries[k].md5_hash = None \/ entries[k].sha256_hash = None
            IN  /\ known /\ entries[k].type = "filepath" /\ lacks /\
                   isfile(files, entries[k].source) =>
                        /\ hashReq'.status = 200 /\ hashReq'.answer = "processing"
                        /\ hashReq'.pc = "claim" /\ hashReq'.key = k
                        /\ hashReq'.source = entries[k].source
                /\ \/ ~known
                   \/ known /\ entries[k].type = "url"
                   \/ known /\ lacks /\ ~isfile(files, entries[k].source)
                   => /\ hashReq'.status \in {400, 404} /\ hashReq'.answer = "error"
                      /\ hashReq'.pc = "idle"
                      /\ entries' = entries
       /\ hashReq.pc = "claim" /\ hashReq' # hashReq =>
            /\ hashReq'.pc = "hash"
            /\ Claimed(entries', hashReq.key)
       /\ hashReq.pc = "hash" /\ hashReq' # hashReq => hashReq'.pc = "persist"
       /\ hashReq.pc = "persist" /\ hashReq' # hashReq =>
            /\ hashReq'.pc = "idle"
            /\ HoldsDigestsOf(entries', files', hashReq.key, hashReq.source)
            /\ \A k \in DOMAIN entries : k # hashReq.key => entries'[k] = entries[k]]_vars

\* a request for the url entry has been answered 400 after one for an
\* uploaded entry (sha256 only), which now holds both digests of its file
HashNowEffectWitness ==
    /\ hashReq.pc = "idle" /\ hashReq.status = 400
    /\ entries[2].type = "url" /\ entries[2].md5_hash = None
    /\ \E k \in {1, 3} : HoldsDigestsOf(entries, files, k, entries[k].source) /\ files[entries[k].source] = MaxContent

\* C29: an entry that a step of a scan adds to the store is of type
\* filepath, has the candidate the scan stood at as its source and that
\* file's name without the extension as its name, no digest in either
\* field and no corrupt flag set; no step of a scan changes a digest field
\* of an entry.
ScanInsertsBare ==
    [][\A r \in ScanReqs :
          scan'[r] # scan[r] =>
              /\ \A k \in DOMAIN entries' \ DOMAIN entries :
                    LET doc == entries'[k]
                    IN  /\ scan[r].pc = "insert"
                        /\ doc.type = "filepath"
                        /\ doc.source = Head(scan[r].cand)
                        /\ should_process_file(doc.source)
                        /\ doc.name = [stem |-> doc.source.stem, n |-> doc.source.n]
                        /\ doc.md5_hash = None
                        /\ doc.sha256_hash = None
                        /\ doc.corrupt \in {"null", "false"}
              /\ \A k \in DOMAIN entries :
                    /\ entries'[k].md5_hash = entries[k].md5_hash
                    /\ entries'[k].sha256_hash = entries[k].sha256_hash]_vars

\* a scan has registered games/a_1.nsp under the name a_1 and another file
ScanInsertsBareWitness ==
    \E r \in ScanReqs :
        /\ scan[r].pc = "done" /\ scan[r].added >= 2
        /\ \E k \in DOMAIN entries :
              /\ entries[k].source = Universe[2]
              /\ entries[k].name = [stem |-> "a", n |-> 1]
              /\ entries[k].md5_hash = None /\ entries[k].sha256_hash = None

\* C30: a step of a scan, be it of one directory or of all, keeps every
\* entry of the store, under its key and with every field as it was,
\* whatever a sweep or a request is in the middle of.
ScanFrame ==
    [][\A r \in ScanReqs :
          scan'[r] # scan[r] =>
              \A k \in DOMAIN entries :
                  k \in DOMAIN entries' /\ entries'[k] = entries[k]]_vars

\* a scan has run from its request to its answer, skipping a registered
\* file and registering another, while a sweep computes the digests of an
\* entry it has claimed
ScanFrameWitness ==
    /\ scan[1].pc = "done"
    /\ scan[1].added >= 1 /\ scan[1].skipped >= 1
    /\ sweep["initial"].pc = "hash"
    /\ Claimed(entries, Current(sweep["initial"]).key)

\* an entry but for its two digest fields
Undigested(doc) == [doc EXCEPT !.md5_hash = None, !.sha256_hash = None]

\* C31: a step of a sweep leaves the store with the same entries, each equal
\* to what it was but for md5_hash and sha256_hash, which change only on an
\* entry of the sweep's list, and leaves the reports as they were; an entry
\* whose file is gone stays registered.
SweepFrame ==
    [][\A t \in Tasks :
          sweep'[t] # sweep[t] =>
              /\ DOMAIN entries' = DOMAIN entries
              /\ nextKey' = nextKey
              /\ \A k \in DOMAIN entries :
                    /\ Undigested(entries'[k]) = Undigested(entries[k])
                    /\ entries'[k] # entries[k] => k \in SelectedKeys(sweep[t])
              /\ reports' = reports
              /\ nextReport' = nextReport]_vars

\* the sweep is over: it has hashed a flagged and reported entry, which is
\* still flagged, and passed over an entry whose file is gone, which is
\* still registered without digests
SweepFrameWitness ==
    /\ sweep["initial"].pc = "done"
    /\ Len(sweep["initial"].entries_to_process) = 2
    /\ Digested(entries, 1) /\ entries[1].corrupt = "true"
    /\ reports[1].status = "open"
    /\ ~isfile(files, entries[3].source)
    /\ entries[3].md5_hash = None /\ entries[3].sha256_hash = None

\* a report as it was created
AsCreated(rep) ==
    [rep EXCEPT !.status = "open", !.resolved_at = "null", !.resolved_by = "null"]

\* C32: no step removes a report or opens a resolved one; a step changes a
\* report only in its status and resolution fields, and a resolve changes
\* no report but one.
ReportsOnlyResolve ==
    [][/\ \A id \in DOMAIN reports :
            /\ id \in DOMAIN reports'
            /\ reports[id].status = "resolved" => reports'[id].status = "resolved"
            /\ AsCreated(reports'[id]) = AsCreated(reports[id])
       /\ Answered("resolve_report") =>
            /\ DOMAIN reports' = DOMAIN reports
            /\ Cardinality({ id \in DOMAIN reports : reports'[id] # reports[id] }) <= 1]_vars

\* a resolve has been answered 200 with a resolved report beside two open
\* ones, one of them on the same entry
ReportsOnlyResolveWitness ==
    /\ modResp.op = "resolve_report" /\ modResp.status = 200
    /\ \E a, b, c \in DOMAIN reports :
          /\ a # b /\ b # c /\ a # c
          /\ reports[a].status = "resolved"
          /\ reports[b].status = "open" /\ reports[c].status = "open"
          /\ reports[a].entry_id = reports[b].entry_id

\* C33: a report is open exactly when its resolution time and its resolver
\* are null; a resolve answered with success has written "resolved", a time
\* and the resolver on one report of the store, and a resolve that fails,
\* as it does for an id the store does not hold, leaves the reports as
\* they were.
ResolutionConsistent ==
    /\ [](\A id \in DOMAIN reports :
            /\ reports[id].status \in {"open", "resolved"}
            /\ reports[id].status = "open" <=>
                  (reports[id].resolved_at = "null" /\ reports[id].resolved_by = "null"))
    /\ [][Answered("resolve_report") =>
            /\ modResp'.status = 200 =>
                  \E id \in DOMAIN reports :
                      reports' = [reports EXCEPT ![id].status = "resolved",
                                                 ![id].resolved_at = "utcnow",
                                                 ![id].resolved_by = "moderator"]
            /\ modResp'.status # 200 =>
                  /\ reports' = reports
                  /\ nextReport' = nextReport]_vars

\* a resolve of the open report was answered 200 and then a resolve of an
\* unknown id 500: both reports are resolved, with time and resolver
ResolutionConsistentWitness ==
    /\ modResp.op = "resolve_report" /\ modResp.status = 500 /\ modResp.n = 2
    /\ \A id \in DOMAIN reports :
          /\ reports[id].status = "resolved"
          /\ reports[id].resolved_at # "null" /\ reports[id].resolved_by # "null"

\* C34: a mark-valid answered with success has written corrupt = false on
\* the entry it names and nothing else: the other entries, flags included,
\* and the entry's own digests and other fields are as before, and so are
\* the reports. A mark-valid that names no entry or an unknown one is
\* answered with an error and changes neither the entries, the reports nor
\* the activity log. The flag write of a report submission sets the flag
\* of its entry to true whatever it was, so also after a mark-valid.
MarkValidFrame ==
    /\ [][Answered("mark_valid") =>
            /\ reports' = reports
            /\ modResp'.status = 200 =>
                  /\ Len(activity') = Len(activity) + 1
                  /\ LET key == activity'[Len(activity')].entry_id
                     IN  /\ key \in DOMAIN entries
                         /\ entries' = [entries EXCEPT ![key].corrupt = "false"]
            /\ modResp'.status # 200 =>
                  /\ modResp'.status \in {400, 404}
                  /\ entries' = entries
                  /\ activity' = activity]_vars
    /\ [][\A r \in Submits :
            (report[r].pc = "flag" /\ report'[r].pc = "log") =>
                entries' = [entries EXCEPT ![report[r].entry_id].corrupt = "true"]]_vars

\* an entry was marked valid while another stayed flagged, and a report
\* submitted afterwards has flagged it again
MarkValidFrameWitness ==
    /\ Len(activity) = 2
    /\ activity[1].event_type = "entry_marked_valid"
    /\ activity[2].event_type = "report_submitted"
    /\ activity[1].entry_id = activity[2].entry_id
    /\ entries[activity[1].entry_id].corrupt = "true"
    /\ \E k \in DOMAIN entries : k # activity[1].entry_id /\ entries[k].corrupt = "true"
    /\ modResp.op = "mark_valid" /\ modResp.status = 200

\* C35: in every reachable state, whatever the interleaving of the
\* add-directory requests, no two documents of the directories collection
\* have the same path.
DirectoryUnique ==
    \A j, k \in DOMAIN directories :
        j # k => directories[j].path # directories[k].path

\* C36: an entry that holds two hex digests holds two hex digests after
\* every step, whichever coroutine takes it: no sweep, late or not, and no
\* on-demand request writes the sentinel or null over them.
DigestsNeverLost ==
    [][\A k \in DOMAIN entries :
          (Digested(entries, k) /\ k \in DOMAIN entries') => Digested(entries', k)]_vars

\* what the uploader leaves in a document: sha256_hash set, md5_hash null
Uploaded(doc) == doc.md5_hash = None /\ doc.sha256_hash.kind = "hex"

\* the entries a sweep's list holds as the uploader left them
SelectedUploads(task) ==
    { task.entries_to_process[j].key :
         j \in { i \in 1..Len(task.entries_to_process) :
                    Uploaded(task.entries_to_process[i]) } }

AtDeleted(t) ==
    /\ sweep[t].pc \in {"release", "claim", "persist", "cleanup"}
    /\ Current(sweep[t]).key \notin DOMAIN entries

\* C38: no step of a sweep adds an entry to the store, so an entry deleted
\* after the query is never back; the claim, persist and clear writes of an
\* item whose entry is gone leave the store as it is, and the sweep goes on:
\* from the claim to the hashing, from the persist to the pause, from a
\* clear to the next item or to the end of the list.
SweepNeverRecreates ==
    [][\A t \in Tasks :
          sweep'[t] # sweep[t] =>
              /\ DOMAIN entries' = DOMAIN entries
              /\ AtDeleted(t) =>
                    /\ entries' = entries
                    /\ sweep[t].pc = "claim" => sweep'[t].pc = "hash"
                    /\ sweep[t].pc = "persist" => sweep'[t].pc = "pause"
                    /\ sweep[t].pc \in {"release", "cleanup"} =>
                          \/ sweep'[t].i > sweep[t].i
                          \/ sweep'[t].pc = "done"]_vars

\* the store was cleared while the sweep hashed its first entry: the sweep
\* has gone through the writes of that item and the claim of the next, and
\* stands before the persist write of the second with the store still empty
SweepNeverRecreatesWitness ==
    /\ sweep["initial"].pc = "persist"
    /\ sweep["initial"].i = 2
    /\ DOMAIN entries = {}
    /\ budget = MaxRequests - 1

\* the keys of a listing
ListedKeys(listing) == { listing[i].key : i \in DOMAIN listing }

\* the entries the default listing returns from the store as it is
Listed(ents, reps) ==
    ListedKeys(get_all_entries_with_download_counts(ents, reps, TRUE))

\* C39: the default listing answers exactly the entries whose corrupt flag
\* is not true, each once; the flag write of a report submission takes its
\* entry out of what the listing returns, and a mark-valid answered with
\* success puts its entry back.
ListingHidesCorrupt ==
    [][/\ Answered("list_entries") =>
            /\ ListedKeys(modResp'.listing)
                  = { k \in DOMAIN entries : entries[k].corrupt # "true" }
            /\ Len(modResp'.listing) = Cardinality(ListedKeys(modResp'.listing))
       /\ \A r \in Submits :
            (report[r].pc = "flag" /\ report'[r].pc = "log") =>
                report[r].entry_id \notin Listed(entries', reports')
       /\ (Answered("mark_valid") /\ modResp'.status = 200) =>
                activity'[Len(activity')].entry_id \in Listed(entries', reports')]_vars

\* an entry that was listed has been reported and then marked valid: the
\* listing asked for after the report did not hold it, the one asked for
\* after the mark-valid holds it, and not the entry that is still flagged
ListingHidesCorruptWitness ==
    /\ modResp.op = "list_entries" /\ modResp.n = 3
    /\ Len(activity) = 2
    /\ activity[1].event_type = "report_submitted"
    /\ activity[2].event_type = "entry_marked_valid"
    /\ activity[1].entry_id = activity[2].entry_id
    /\ activity[1].entry_id \in ListedKeys(modResp.listing)
    /\ \E k \in DOMAIN entries :
          entries[k].corrupt = "true" /\ k \notin ListedKeys(modResp.listing)

\* C40: the file of an upload is written to a path that held no file; when
\* the name of the upload is the name of an entry of the store, the request
\* ends there with 400: the entries, their digests, the upload statistics
\* and the activity log are as they were, and the file written is removed,
\* the other files staying as they are.
UploadDuplicateRejected ==
    [][/\ (upload.pc = "idle" /\ upload'.pc = "dupname") =>
            /\ ~isfile(files, upload'.path)
            /\ isfile(files', upload'.path)
       /\ (/\ upload.pc = "dupname"
           /\ upload' # upload
           /\ \E k \in DOMAIN entries : entries[k].name = upload.name) =>
            /\ upload'.pc = "idle"
            /\ upload'.status = 400
            /\ entries' = entries
            /\ nextKey' = nextKey
            /\ uploads' = uploads
            /\ activity' = activity
            /\ files' = [files EXCEPT ![upload.path] = 0]]_vars

\* a second upload of a.nsp was written beside the first as a_1.nsp and
\* rejected: one entry, one statistic, and a.nsp the only file on disk
UploadDuplicateRejectedWitness ==
    /\ upload.pc = "idle" /\ upload.status = 400
    /\ Len(uploads) = 1
    /\ Cardinality(DOMAIN entries) = 1
    /\ \A p \in Paths : isfile(files, p) <=> p = Path(upload_dir, "a", 0, "nsp")

===========================================================================
